---------------------------- MODULE Spec2Model ----------------------------
(***************************************************************************)
(* Posterior-query engine of scvi (src/scvi/core/models/__init__.py):      *)
(* VAEMixin, RNASeqMixin and BaseModelClass, and minify_adata of SCVI      *)
(* (src/src/scvi/model/_scvi.py).                                          *)
(*                                                                         *)
(* A model wrapper owns is_trained_, its dataset, its index sets, its      *)
(* trainer and a module with a declared gene_likelihood and dispersion.    *)
(* Every operation (train, save, load, minify_adata and each query) is     *)
(* one action: it runs the whole method                                    *)
(* body on its arguments and leaves a record of the call (arguments, the   *)
(* ordered trace of the collaborators it invoked, the log, the exception   *)
(* raised if any, and the value returned) in the variable call.            *)
(*                                                                         *)
(* Arrays are numpy/torch arrays: a shape and the sequence of the          *)
(* values in row-major order.  Indices are 1-based here and 0-based in    *)
(* the source.                                                             *)
(* Optional arguments are <<>> for None and <<v>> for a given value v.     *)
(***************************************************************************)
EXTENDS Integers, Sequences, FiniteSets, TLC

VARIABLES
    is_trained_,      \* BaseModelClass.is_trained_
    gene_likelihood,  \* self.model.gene_likelihood
    dispersion,       \* self.model.dispersion: "gene" or "gene-cell"
    params,           \* the parameters of self.model: "initial" or "fitted"
    train_indices_,   \* BaseModelClass.train_indices_ (None until trained)
    test_indices_,    \* BaseModelClass.test_indices_
    validation_indices_,  \* BaseModelClass.validation_indices_
    scvi_setup_dict_, \* BaseModelClass.scvi_setup_dict_
    adata,            \* BaseModelClass.adata: the model's own dataset
    trainer,          \* VAEMixin.trainer: None while the attribute is not set
    init_params_,     \* init_params_: None while the attribute is not set
    use_observed_lib_size,  \* self.module.use_observed_lib_size
    minified_data_type,     \* self.module.minified_data_type
    disk,             \* the file system: what is at each path
    train_fun_kwargs_default,  \* the dict object that is the default of
                      \* train's parameter train_fun_kwargs (line 42)
    call              \* the operation that ran last, or NoCall if none did
                      \* or its outcome was dropped

\* the attributes of the model wrapper
self == <<is_trained_, gene_likelihood, dispersion, params, train_indices_,
          test_indices_, validation_indices_, scvi_setup_dict_, adata,
          trainer, init_params_, use_observed_lib_size, minified_data_type>>

\* what outlives a model wrapper
env == <<disk, train_fun_kwargs_default>>

vars == <<self, env, call>>

-----------------------------------------------------------------------------
(* Bounds of the inputs *)

MaxRows == 2
MaxBatch == 2
MaxSamples == 2

-----------------------------------------------------------------------------
(* Optional values *)

None == <<>>
Some(v) == <<v>>
IsNone(o) == o = <<>>
Get(o) == o[1]

-----------------------------------------------------------------------------
(* The registered dataset (AnnData): three cells, three genes, two batches *)

obs_names == <<"c0", "c1", "c2">>
var_names == <<"G3", "G1", "G2">>
batch_categories == <<"b0", "b1">>
obs_batch == <<0, 1, 0>>

\* adata.obs: the columns a comparison can group the cells by
obs == [cell_type |-> <<"A", "B", "A">>, cluster |-> <<"x", "x", "x">>]
n_obs == Len(obs_names)
n_vars == Len(var_names)

GeneNames == {var_names[j] : j \in 1..n_vars}

\* np.arange(adata.n_obs)
Arange(n) == [i \in 1..n |-> i]

\* _get_var_names_from_setup_anndata(adata)
GetVarNamesFromSetupAnndata == var_names

\* _get_batch_code_from_category(adata, category): position of the category
BatchCodeFromCategory(category) ==
    (CHOOSE i \in 1..Len(batch_categories) : batch_categories[i] = category) - 1

-----------------------------------------------------------------------------
(* numpy / torch arrays *)

\* the value of Body on the value of e, with e evaluated once (an assignment
\* v = e followed by the statements of Body)
Let(e, Body(_)) == CHOOSE r \in {Body(v) : v \in {e}} : TRUE

RECURSIVE Size(_)
Size(shape) == IF shape = <<>> THEN 1 ELSE Head(shape) * Size(Tail(shape))

\* offset (0-based) of an index tuple in row-major order, and its inverse
\* (arrays here have one to four axes)
Ravel(idx, shape) ==
    CASE Len(shape) = 1 -> idx[1] - 1
      [] Len(shape) = 2 -> (idx[1] - 1) * shape[2] + (idx[2] - 1)
      [] Len(shape) = 3 ->
             ((idx[1] - 1) * shape[2] + (idx[2] - 1)) * shape[3] + (idx[3] - 1)
      [] Len(shape) = 4 ->
             (((idx[1] - 1) * shape[2] + (idx[2] - 1)) * shape[3] + (idx[3] - 1))
                 * shape[4] + (idx[4] - 1)

Unravel(k, shape) ==
    CASE Len(shape) = 1 -> <<k + 1>>
      [] Len(shape) = 2 -> <<(k \div shape[2]) + 1, (k % shape[2]) + 1>>
      [] Len(shape) = 3 ->
             <<(k \div (shape[2] * shape[3])) + 1,
               ((k \div shape[3]) % shape[2]) + 1,
               (k % shape[3]) + 1>>
      [] Len(shape) = 4 ->
             <<(k \div (shape[2] * shape[3] * shape[4])) + 1,
               ((k \div (shape[3] * shape[4])) % shape[2]) + 1,
               ((k \div shape[4]) % shape[3]) + 1,
               (k % shape[4]) + 1>>

\* the index tuples of an array of this shape
Indices(shape) == {Unravel(k, shape) : k \in 0..(Size(shape) - 1)}

\* an array: its shape and its elements in row-major order
MkArray(shape0, F(_)) == Let(shape0, LAMBDA shape :
    [shape |-> shape, data |-> [n \in 1..Size(shape) |-> F(Unravel(n - 1, shape))]])

\* a[idx]
At(a, idx) == a.data[Ravel(idx, a.shape) + 1]

Rank(a) == Len(a.shape)

\* position (1-based) of a python axis number, negative axes counted from the end
AxisPos(rank, axis) == IF axis < 0 THEN rank + axis + 1 ELSE axis + 1

RECURSIVE SumSeq(_)
SumSeq(s) == IF s = <<>> THEN 0 ELSE Head(s) + SumSeq(Tail(s))

\* for each position along the concatenation axis, the array it falls in and
\* its position there
ConcatParts(lens) ==
    [i \in 1..SumSeq(lens) |->
        LET k == CHOOSE k \in 1..Len(lens) :
                     /\ SumSeq(SubSeq(lens, 1, k - 1)) < i
                     /\ i <= SumSeq(SubSeq(lens, 1, k))
        IN  <<k, i - SumSeq(SubSeq(lens, 1, k - 1))>>]

\* np.concatenate(arrs, axis) of a non-empty list of arrays of equal rank
Concatenate(arrs0, axis) == Let(arrs0, LAMBDA arrs :
    Let(AxisPos(Rank(arrs[1]), axis), LAMBDA ax :
    Let(ConcatParts([k \in 1..Len(arrs) |-> arrs[k].shape[ax]]), LAMBDA part :
        MkArray([arrs[1].shape EXCEPT ![ax] = Len(part)],
                LAMBDA idx : At(arrs[part[idx[ax]][1]],
                                [idx EXCEPT ![ax] = part[idx[ax]][2]])))))

\* positions selected by a boolean mask, ascending
RECURSIVE MaskPositions(_, _)
MaskPositions(mask, j) ==
    IF j > Len(mask) THEN <<>>
    ELSE (IF mask[j] THEN <<j>> ELSE <<>>) \o MaskPositions(mask, j + 1)

\* a[..., mask]: boolean-mask indexing of the last axis
TakeLast(a0, mask) == Let(a0, LAMBDA a :
    Let(MaskPositions(mask, 1), LAMBDA pos :
        MkArray([a.shape EXCEPT ![Rank(a)] = Len(pos)],
                LAMBDA idx : At(a, [idx EXCEPT ![Rank(a)] = pos[idx[Rank(a)]]]))))

\* a[:, mask, ...]: boolean-mask indexing of axis 1
TakeAxis1(a0, mask) == Let(a0, LAMBDA a :
    Let(MaskPositions(mask, 1), LAMBDA pos :
        MkArray([a.shape EXCEPT ![2] = Len(pos)],
                LAMBDA idx : At(a, [idx EXCEPT ![2] = pos[idx[2]]]))))

\* a * scalar
Times(a0, k) == Let(a0, LAMBDA a :
    [shape |-> a.shape, data |-> [n \in 1..Len(a.data) |-> a.data[n] * k]])

\* a.mean(0)
Mean0(a0) == Let(a0, LAMBDA a :
    MkArray(Tail(a.shape),
            LAMBDA idx : SumSeq([i \in 1..a.shape[1] |-> At(a, <<i>> \o idx)])
                             \div a.shape[1]))

\* np.transpose(a, axes) / tensor.permute(axes): axis k of the result is axis
\* axes[k] of a; numpy raises ValueError when len(axes) differs from a.ndim
CanTranspose(a, axes) == Len(axes) = Rank(a)
Transpose(a0, axes) == Let(a0, LAMBDA a :
    MkArray([k \in 1..Len(axes) |-> a.shape[axes[k] + 1]],
            LAMBDA idx : At(a, [m \in 1..Len(axes) |->
                                   idx[CHOOSE k \in 1..Len(axes) : axes[k] + 1 = m]])))

\* np.concatenate raises ValueError on an empty list and when the arrays differ
\* in a dimension other than the concatenation axis
CanConcatenate(arrs, axis) ==
    /\ arrs # <<>>
    /\ \A k \in 1..Len(arrs) :
           /\ Rank(arrs[k]) = Rank(arrs[1])
           /\ \A m \in 1..Rank(arrs[1]) :
                  m # AxisPos(Rank(arrs[1]), axis) => arrs[k].shape[m] = arrs[1].shape[m]

\* element of a at the trailing axes of idx (broadcasting a against a larger shape)
BroadcastAt(a, idx) == At(a, SubSeq(idx, Len(idx) - Rank(a) + 1, Len(idx)))

\* np.repeat(a[np.newaxis, :], n, axis=0): n copies of a along a new leading axis
RepeatNewAxis(a0, n) == Let(a0, LAMBDA a :
    MkArray(<<n>> \o a.shape, LAMBDA idx : At(a, Tail(idx))))

-----------------------------------------------------------------------------
(* The posterior iterator and the module's decoder *)

\* Posterior(..., shuffle=False, indices, batch_size).sequential(): minibatch i
\* is the i-th contiguous slice of indices, at most batch_size long
NumBatches(indices, batch_size) == (Len(indices) + batch_size - 1) \div batch_size
Batches(indices, batch_size) ==
    [i \in 1..NumBatches(indices, batch_size) |->
        SubSeq(indices, (i - 1) * batch_size + 1,
               IF i * batch_size < Len(indices) THEN i * batch_size ELSE Len(indices))]

\* decoded proportion of gene column j in cell c, posterior sample s, conditioned on batch b
PxScale(c, j, s, b) == 6 * (c + 10 * j + 100 * s + 1000 * (b + 1))

\* latent library size of cell c
Library(c) == c + 1

\* the batch a cell is decoded with
DecodeBatch(c, transform_batch) ==
    IF IsNone(transform_batch) THEN obs_batch[c] ELSE Get(transform_batch)

\* shape of a per-minibatch decoder output
OutShape(cells, n_samples) ==
    IF n_samples = 1 THEN <<Len(cells), n_vars>> ELSE <<n_samples, Len(cells), n_vars>>

\* (sample, cell position, gene column) addressed by an index of such an output
SampleOf(idx, n_samples) == IF n_samples = 1 THEN 1 ELSE idx[1]
CellPosOf(idx, n_samples) == IF n_samples = 1 THEN idx[1] ELSE idx[2]
GeneOf(idx, n_samples) == IF n_samples = 1 THEN idx[2] ELSE idx[3]

\* self.model.get_sample_scale(x, batch_index, y, n_samples, transform_batch)
GetSampleScale(cells, n_samples, transform_batch) ==
    MkArray(OutShape(cells, n_samples),
            LAMBDA idx :
                LET c == cells[CellPosOf(idx, n_samples)]
                IN  PxScale(c, GeneOf(idx, n_samples), SampleOf(idx, n_samples),
                            DecodeBatch(c, transform_batch)))

\* self.model.get_sample_rate(x, batch_index, y, n_samples, transform_batch)
GetSampleRate(cells, n_samples, transform_batch) ==
    MkArray(OutShape(cells, n_samples),
            LAMBDA idx :
                LET c == cells[CellPosOf(idx, n_samples)]
                IN  Library(c) * PxScale(c, GeneOf(idx, n_samples), SampleOf(idx, n_samples),
                                         DecodeBatch(c, transform_batch)))


\* decoded rate, dropout logit and dispersion of the module
PxRate(c, j, s) == Library(c) * PxScale(c, j, s, obs_batch[c])
PxDropout(c, j, s) == 6 * (c + 10 * j + 100 * s)
PxRGene(j) == 2 + j
PxRGeneCell(c, j, s) == 2 + j + 10 * c + 100 * s

\* self.model.inference(x, batch_index=batch_idx, y=labels, n_samples=n_samples):
\* the outputs for one minibatch, decoded with each cell's observed batch.
\* px_r has shape (genes,) for gene dispersion and the shape of the other
\* outputs for gene-cell dispersion.
Inference(cells, n_samples, disp) ==
    [px_scale |-> GetSampleScale(cells, n_samples, None),
     px_rate |->
         MkArray(OutShape(cells, n_samples),
                 LAMBDA idx : PxRate(cells[CellPosOf(idx, n_samples)],
                                     GeneOf(idx, n_samples), SampleOf(idx, n_samples))),
     px_dropout |->
         MkArray(OutShape(cells, n_samples),
                 LAMBDA idx : PxDropout(cells[CellPosOf(idx, n_samples)],
                                        GeneOf(idx, n_samples), SampleOf(idx, n_samples))),
     px_r |->
         IF disp = "gene" THEN MkArray(<<n_vars>>, LAMBDA idx : PxRGene(idx[1]))
         ELSE MkArray(OutShape(cells, n_samples),
                      LAMBDA idx : PxRGeneCell(cells[CellPosOf(idx, n_samples)],
                                               GeneOf(idx, n_samples),
                                               SampleOf(idx, n_samples)))]

-----------------------------------------------------------------------------
(* Call records *)

NoResult == [type |-> "None"]
NdArray(a) == [type |-> "ndarray", shape |-> a.shape, data |-> a.data]

\* pd.DataFrame(a, columns=columns, index=index)
DataFrame(a, columns, index) ==
    [type |-> "DataFrame", shape |-> a.shape, data |-> a.data,
     columns |-> columns, index |-> index]

NoCall ==
    [op |-> "none", args |-> <<>>, events |-> <<>>, log |-> <<>>,
     raised |-> "none", msg |-> "", result |-> NoResult]

Returned(op, args, events, log, result) ==
    [op |-> op, args |-> args, events |-> events, log |-> log,
     raised |-> "none", msg |-> "", result |-> result]

\* exc is the exception's type and msg says which raise it was
Raised(op, args, events, log, exc, msg) ==
    [op |-> op, args |-> args, events |-> events, log |-> log,
     raised |-> exc, msg |-> msg, result |-> NoResult]

\* n copies of an event
Repeat(e, n) == [i \in 1..n |-> e]

-----------------------------------------------------------------------------
(* BaseModelClass helpers *)

\* _make_posterior(adata, indices, batch_size): the minibatches, in iteration order
MakePosterior(indices, batch_size) ==
    Batches(IF IsNone(indices) THEN Arange(n_obs) ELSE Get(indices), batch_size)

\* seq[mask] / seq[indices] of a pandas Index
MaskSelect(seq, mask) ==
    LET pos == MaskPositions(mask, 1) IN [k \in 1..Len(pos) |-> seq[pos[k]]]
TakeSeq(seq, indices) == [k \in 1..Len(indices) |-> seq[indices[k]]]

-----------------------------------------------------------------------------
(* BaseModelClass._validate_anndata *)

\* A dataset object is written as which object it is (id) and what the checks
\* read of it: is_view (adata.is_view), has_setup ("_scvi" in adata.uns_keys())
\* and is_count (_check_nonnegative_integers of its registered X).

Logged(level, msg) == [level |-> level, msg |-> msg]

\* adata.copy(): a new object, no longer a view, with the same content
CopyOf(d) == [d EXCEPT !.id = "copy", !.is_view = FALSE]

\* transfer_anndata_setup(self.scvi_setup_dict_, adata) registers adata in place
TransferAnndataSetup(d) == [d EXCEPT !.has_setup = TRUE]

\* a validation that never copies
NeverCopies(d, copy_if_view) == FALSE

\* the test of lines 769-773 for replacing adata by a copy
CopiesView(d, copy_if_view) == d.is_view /\ copy_if_view

\* Result of _validate_anndata(adata_arg, copy_if_view) on a model whose own
\* dataset is own: the log, the object returned, and the caller's object
\* (adata_arg, or own for None) as the call leaves it.
ValidateAnndata(adata_arg, copy_if_view, own) ==
    LET given == IF IsNone(adata_arg) THEN own ELSE Get(adata_arg)
        used == IF CopiesView(given, copy_if_view) THEN CopyOf(given) ELSE given
        returned == IF used.has_setup THEN used ELSE TransferAnndataSetup(used)
    IN  [log |->
             (IF given.is_view THEN <<Logged("warning", "Input anndata is a view.")>>
              ELSE <<>>)
             \o (IF CopiesView(given, copy_if_view)
                 THEN <<Logged("info", "Making copy of anndata.")>> ELSE <<>>)
             \o (IF ~used.has_setup
                 THEN <<Logged("info", "Input adata not setup with scvi.")>> ELSE <<>>)
             \o (IF ~returned.is_count
                 THEN <<Logged("warning", "Make sure the registered X field in anndata contains unnormalized count data.")>>
                 ELSE <<>>),
         events |->
             (IF CopiesView(given, copy_if_view) THEN <<"copy">> ELSE <<>>)
             \o (IF ~used.has_setup THEN <<"transfer_anndata_setup">> ELSE <<>>)
             \o <<"_check_nonnegative_integers", "_check_anndata_setup_equivalence">>,
         returned |-> returned,
         given_after |-> IF returned.id = given.id THEN returned ELSE given]

CallOfValidateAnndata(a, own) ==
    Let(ValidateAnndata(a.adata, a.copy_if_view, own), LAMBDA r :
        Returned("_validate_anndata", a, r.events, r.log,
                 [type |-> "AnnData", returned |-> r.returned,
                  given_after |-> r.given_after]))

-----------------------------------------------------------------------------
(* VAEMixin.get_elbo, get_marginal_ll, get_reconstruction_error and        *)
(* get_latent_representation                                               *)

\* the rows a posterior made for indices iterates over (lines 751-752)
PosteriorRows(indices) == IF IsNone(indices) THEN Arange(n_obs) ELSE Get(indices)

\* post.elbo(), post.marginal_ll(...), post.reconstruction_error(): a number
\* decided by the metric, the rows and the parameters of the module
MetricWeight(metric) ==
    CASE metric = "elbo" -> 1
      [] metric = "marginal_ll" -> 2
      [] metric = "reconstruction_error" -> 3

PosteriorMetric(metric, rows, p) ==
    MetricWeight(metric) + 10 * SumSeq(rows) + (IF p = "fitted" THEN 0 ELSE 5)

\* the body shared by get_elbo, get_marginal_ll and get_reconstruction_error:
\* validate, make the posterior, return minus its metric
MetricQuery(op, metric, a, p) ==
    Returned(op, a, <<"_validate_anndata", "_make_posterior", metric>>, <<>>,
             [type |-> "float",
              value |-> 0 - PosteriorMetric(metric, PosteriorRows(a.indices), p)])

\* n_mc_samples of get_marginal_ll and mc_samples of get_latent_representation
DefaultNMcSamples == 1000
DefaultMcSamples == 5000

\* n_latent of the module
NLatent == 2

\* self.model.sample_from_posterior_z(x, give_mean, n_samples): one latent
\* vector per cell
SampleFromPosteriorZ(cells, give_mean) ==
    MkArray(<<Len(cells), NLatent>>,
            LAMBDA idx : 100 * cells[idx[1]] + idx[2] + (IF give_mean THEN 0 ELSE 50))

GetLatentRepresentation(a, trained) ==
    IF trained = FALSE
    THEN Raised("get_latent_representation", a, <<>>, <<>>,
                "RuntimeError", "Please train the model first.")
    ELSE Let(MakePosterior(a.indices, a.batch_size), LAMBDA post :
             Returned("get_latent_representation", a,
                      <<"_validate_anndata", "_make_posterior">>
                          \o Repeat("sample_from_posterior_z", Len(post)),
                      <<>>,
                      NdArray(Concatenate(
                          [i \in 1..Len(post) |-> SampleFromPosteriorZ(post[i], a.give_mean)],
                          0))))

-----------------------------------------------------------------------------
(* RNASeqMixin.get_normalized_expression *)

\* a gene_mask that ignores gene_list
GeneMaskIgnoringList(gene_list) == [j \in 1..n_vars |-> TRUE]

\* gene_mask: slice(None) selects every column, as the all-True mask does
GeneMask(gene_list) ==
    IF IsNone(gene_list) THEN [j \in 1..n_vars |-> TRUE]
    ELSE LET all_genes == GetVarNamesFromSetupAnndata
             wanted == {Get(gene_list)[k] : k \in 1..Len(Get(gene_list))}
         IN  [j \in 1..Len(all_genes) |-> all_genes[j] \in wanted]

\* n_samples > 1 and return_mean is False
KeepsSampleAxis(n_samples, return_mean) == n_samples > 1 /\ return_mean = FALSE

\* the warning of line 295, logged only for an explicit return_numpy=False
NumpyWarning(n_samples, return_mean, return_numpy) ==
    IF KeepsSampleAxis(n_samples, return_mean) /\ return_numpy = Some(FALSE)
    THEN <<"return_numpy must be True">> ELSE <<>>

\* return_numpy left as the caller passed it
ReturnNumpyAsPassed(n_samples, return_mean, return_numpy) == return_numpy

\* return_numpy after lines 293-298
EffectiveReturnNumpy(n_samples, return_mean, return_numpy) ==
    IF KeepsSampleAxis(n_samples, return_mean) THEN Some(TRUE) ELSE return_numpy

\* a scaling that ignores library_size
ScalingAlwaysOne(library_size) == 1

\* scaling of lines 301-306
Scaling(library_size) == IF library_size.kind = "latent" THEN 1 ELSE library_size.val

\* model_fn of lines 301-306 applied to one minibatch
ModelFn(library_size, cells, n_samples, transform_batch) ==
    IF library_size.kind = "latent"
    THEN GetSampleRate(cells, n_samples, transform_batch)
    ELSE GetSampleScale(cells, n_samples, transform_batch)

\* concatenation along axis 0 whatever n_samples is
ExprConcatAxisZero(n_samples) == 0

\* the axis the minibatch outputs are concatenated along (lines 328-332)
ExprConcatAxis(n_samples) == IF n_samples > 1 THEN -2 ELSE 0

\* exprs after the loop, the concatenation and the optional mean (lines 308-335)
NormalizedExprs(post, a, transform_batch, gene_mask) ==
    LET exprs == [i \in 1..Len(post) |->
                     Times(TakeLast(ModelFn(a.library_size, post[i], a.n_samples,
                                            transform_batch), gene_mask),
                           Scaling(a.library_size))]
        cat == Concatenate(exprs, ExprConcatAxis(a.n_samples))
    IN  IF a.n_samples > 1 /\ a.return_mean THEN Mean0(cat) ELSE cat

GetNormalizedExpression(a) ==
    Let(MakePosterior(a.indices, a.batch_size), LAMBDA post :
    Let(IF IsNone(a.transform_batch) THEN None
        ELSE Some(BatchCodeFromCategory(Get(a.transform_batch))), LAMBDA transform_batch :
    Let(GeneMask(a.gene_list), LAMBDA gene_mask :
    Let(EffectiveReturnNumpy(a.n_samples, a.return_mean, a.return_numpy), LAMBDA return_numpy :
    Let(IF IsNone(a.indices) THEN Arange(n_obs) ELSE Get(a.indices), LAMBDA indices :
    Let(NormalizedExprs(post, a, transform_batch, gene_mask), LAMBDA exprs :
        Returned("get_normalized_expression", a,
                 <<"_validate_anndata", "_make_posterior">> \o Repeat("model_fn", Len(post)),
                 NumpyWarning(a.n_samples, a.return_mean, a.return_numpy),
                 IF IsNone(return_numpy) \/ return_numpy = Some(FALSE)
                 THEN DataFrame(exprs, MaskSelect(var_names, gene_mask),
                                TakeSeq(obs_names, indices))
                 ELSE NdArray(exprs))))))))

-----------------------------------------------------------------------------
(* RNASeqMixin.posterior_predictive_sample *)

\* a likelihood check that lets every likelihood through
AnyLikelihoodSupported(likelihood) == TRUE

\* the check of lines 427-428
LikelihoodSupported(likelihood) == likelihood \in {"zinb", "nb", "poisson"}

\* the ceiling of the Poisson rate (line 456)
PoissonRateCeiling == 100000000
Clamp(v, max) == IF v > max THEN max ELSE v

\* the distribution built from the decoded parameters of one entry (lines 454-471)
CountDistribution(likelihood, px_rate, px_r, px_dropout) ==
    CASE likelihood = "poisson" ->
             [dist |-> "Poisson", mu |-> Clamp(px_rate, PoissonRateCeiling),
              theta |-> 0, zi_logits |-> 0]
      [] likelihood = "nb" ->
             [dist |-> "NegativeBinomial", mu |-> px_rate, theta |-> px_r, zi_logits |-> 0]
      [] likelihood = "zinb" ->
             [dist |-> "ZeroInflatedNegativeBinomial", mu |-> px_rate, theta |-> px_r,
              zi_logits |-> px_dropout]
      [] OTHER -> [dist |-> "unhandled", mu |-> 0, theta |-> 0, zi_logits |-> 0]

\* dist.sample(): one draw per entry of the decoded outputs, each written as the
\* distribution it is drawn from
DistSample(likelihood, outputs0) == Let(outputs0, LAMBDA outputs :
    MkArray(outputs.px_rate.shape,
            LAMBDA idx : CountDistribution(likelihood, At(outputs.px_rate, idx),
                                           BroadcastAt(outputs.px_r, idx),
                                           At(outputs.px_dropout, idx))))

\* exprs of one minibatch (lines 472-480)
PredictiveExprs(sample, n_samples, gene_list, gene_mask) ==
    Let(IF n_samples > 1 THEN Transpose(sample, <<1, 2, 0>>) ELSE sample, LAMBDA exprs :
        IF ~IsNone(gene_list) THEN TakeAxis1(exprs, gene_mask) ELSE exprs)

PosteriorPredictiveSample(a, likelihood, disp) ==
    IF ~LikelihoodSupported(likelihood)
    THEN Raised("posterior_predictive_sample", a, <<>>, <<>>,
                "ValueError", "Invalid gene_likelihood.")
    ELSE
    Let(MakePosterior(a.indices, a.batch_size), LAMBDA post :
    Let(GeneMask(a.gene_list), LAMBDA gene_mask :
    IF CountDistribution(likelihood, 0, 0, 0).dist = "unhandled"
    THEN \* the else branch of lines 466-471, in the first minibatch
         Raised("posterior_predictive_sample", a,
                <<"_validate_anndata", "_make_posterior", "inference">>, <<>>,
                "ValueError", "reconstruction error not handled right now")
    ELSE
    Let([i \in 1..Len(post) |->
            PredictiveExprs(DistSample(likelihood, Inference(post[i], a.n_samples, disp)),
                            a.n_samples, a.gene_list, gene_mask)], LAMBDA x_new :
        Returned("posterior_predictive_sample", a,
                 <<"_validate_anndata", "_make_posterior">>
                     \o Repeat("inference", Len(post)) \o Repeat("sample", Len(post)),
                 <<>>,
                 NdArray(Concatenate(x_new, 0))))))

-----------------------------------------------------------------------------
(* RNASeqMixin._get_denoised_samples *)

DefaultRnaSizeFactor == 1000

\* px_dispersion of lines 536-539: px_r itself when it has two axes, else
\* torch.ones_like(x) * px_r, which has the broadcast shape of x and px_r
PxDispersion(cells, px_r0) == Let(px_r0, LAMBDA px_r :
    IF Rank(px_r) = 2 THEN px_r
    ELSE MkArray(IF Rank(px_r) = 3 THEN px_r.shape ELSE <<Len(cells), n_vars>>,
                 LAMBDA idx : BroadcastAt(px_r, idx)))

\* l_train of lines 535-545: one Gamma draw per entry, written as the mean
\* (rate) and the shape (dispersion) of the distribution it is drawn from
GammaSample(rna_size_factor, px_scale0, px_dispersion0) ==
    Let(px_scale0, LAMBDA px_scale :
    Let(px_dispersion0, LAMBDA px_dispersion :
        MkArray(px_scale.shape,
                LAMBDA idx : [dist |-> "Gamma",
                              mu |-> rna_size_factor * At(px_scale, idx),
                              theta |-> BroadcastAt(px_dispersion, idx)])))

\* the Gamma draws of one minibatch, before the transposition of line 552
DenoisedData(cells, n_samples, rna_size_factor, disp) ==
    Let(Inference(cells, n_samples, disp), LAMBDA outputs :
        GammaSample(rna_size_factor, outputs.px_scale,
                    PxDispersion(cells, outputs.px_r)))

\* _get_denoised_samples as a sub-call: the events it adds, whether it raised,
\* and the array it returns.  The loop stops at the first minibatch whose
\* transposition fails.
DenoisedSamples(indices, n_samples, batch_size, rna_size_factor, transform_batch, disp) ==
    Let(MakePosterior(indices, batch_size), LAMBDA post :
    Let([i \in 1..Len(post) |-> DenoisedData(post[i], n_samples, rna_size_factor, disp)],
        LAMBDA data :
        IF \E i \in 1..Len(post) : ~CanTranspose(data[i], <<1, 2, 0>>)
        THEN [events |-> <<"_validate_anndata", "_make_posterior", "inference", "sample">>,
              raised |-> "ValueError", msg |-> "axes don't match array",
              value |-> NoResult]
        ELSE [events |-> <<"_validate_anndata", "_make_posterior">>
                             \o Repeat("inference", Len(post)) \o Repeat("sample", Len(post)),
              raised |-> "none", msg |-> "",
              value |-> NdArray(Concatenate(
                            [i \in 1..Len(post) |-> Transpose(data[i], <<1, 2, 0>>)], 0))]))

GetDenoisedSamples(a, disp) ==
    Let(DenoisedSamples(a.indices, a.n_samples, a.batch_size, a.rna_size_factor,
                        a.transform_batch, disp), LAMBDA r :
        IF r.raised # "none"
        THEN Raised("_get_denoised_samples", a, r.events, <<>>, r.raised, r.msg)
        ELSE Returned("_get_denoised_samples", a, r.events, <<>>, r.value))

-----------------------------------------------------------------------------
(* RNASeqMixin.get_feature_correlation_matrix *)

\* the list the loop of line 604 runs over (lines 601-602)
TransformBatchList(tb) ==
    IF tb.kind = "none" THEN <<None>>
    ELSE IF tb.kind = "int" THEN <<Some(tb.val[1])>>
    ELSE [k \in 1..Len(tb.val) |-> Some(tb.val[k])]

\* np.zeros(shape)
Zeros(shape) == MkArray(shape, LAMBDA idx : 0)

\* a pass that copies the first posterior sample into every block
FlattenStepFirstSample(flat0, den0, i) ==
    Let(flat0, LAMBDA flat :
    Let(den0, LAMBDA den :
        MkArray(flat.shape,
                LAMBDA idx :
                    IF den.shape[1] * i < idx[1] /\ idx[1] <= den.shape[1] * (i + 1)
                    THEN At(den, <<idx[1] - den.shape[1] * i, idx[2], 1>>)
                    ELSE At(flat, idx))))

\* one pass of the loop of lines 616-619 (i counts from 0):
\* flattened[cells * i : cells * (i + 1)] = denoised_data[:, :, i]
FlattenStep(flat0, den0, i) ==
    Let(flat0, LAMBDA flat :
    Let(den0, LAMBDA den :
        MkArray(flat.shape,
                LAMBDA idx :
                    IF den.shape[1] * i < idx[1] /\ idx[1] <= den.shape[1] * (i + 1)
                    THEN At(den, <<idx[1] - den.shape[1] * i, idx[2], i + 1>>)
                    ELSE At(flat, idx))))

RECURSIVE FlattenLoop(_, _, _, _)
FlattenLoop(flat, den, i, n_samples) ==
    IF i >= n_samples THEN flat
    ELSE FlattenLoop(FlattenStep(flat, den, i), den, i + 1, n_samples)

\* flattened of lines 613-619
Flattened(den, n_samples) ==
    FlattenLoop(Zeros(<<den.shape[1] * n_samples, den.shape[2]>>), den, 0, n_samples)

\* the loop of lines 604-628 over the remaining entries tbs, stopping at the
\* first exception
RECURSIVE CorrLoop(_, _, _, _, _)
CorrLoop(a, disp, tbs, events, corr_mats) ==
    IF tbs = <<>>
    THEN [events |-> events, raised |-> "none", msg |-> "", corr_mats |-> corr_mats]
    ELSE Let(DenoisedSamples(a.indices, a.n_samples, a.batch_size, a.rna_size_factor,
                             Head(tbs), disp), LAMBDA r :
         IF r.raised # "none"
         THEN [events |-> events \o r.events, raised |-> r.raised, msg |-> r.msg,
               corr_mats |-> corr_mats]
         ELSE IF a.correlation_type \notin {"pearson", "spearman"}
         THEN [events |-> events \o r.events, raised |-> "ValueError",
               msg |-> "Unknown correlation type.", corr_mats |-> corr_mats]
         ELSE CorrLoop(a, disp, Tail(tbs), events \o r.events,
                       Append(corr_mats,
                              [correlation |-> a.correlation_type,
                               transform_batch |-> Head(tbs),
                               flattened |-> Flattened(r.value, a.n_samples)])))

\* The returned table is np.mean(np.stack(corr_mats), axis=0): it is written as
\* the list of the matrices averaged, each as its correlation type and the
\* matrix it is the correlation of.  np.stack raises ValueError on an empty list.
GetFeatureCorrelationMatrix(a, disp) ==
    Let(CorrLoop(a, disp, TransformBatchList(a.transform_batch),
                 <<"_validate_anndata">>, <<>>), LAMBDA r :
        IF r.raised # "none"
        THEN Raised("get_feature_correlation_matrix", a, r.events, <<>>, r.raised, r.msg)
        ELSE IF r.corr_mats = <<>>
        THEN Raised("get_feature_correlation_matrix", a, r.events, <<>>,
                    "ValueError", "need at least one array to stack")
        ELSE Returned("get_feature_correlation_matrix", a, r.events, <<>>,
                      [type |-> "DataFrame", shape |-> <<n_vars, n_vars>>,
                       mean_of |-> r.corr_mats,
                       columns |-> GetVarNamesFromSetupAnndata,
                       index |-> GetVarNamesFromSetupAnndata]))

-----------------------------------------------------------------------------
(* RNASeqMixin.get_latent_library_size and get_likelihood_parameters *)

\* self.model.sample_from_posterior_l(x, give_mean): one value per cell
LibrarySample(c) == 10 * Library(c) + 1
SampleFromPosteriorL(cells, give_mean) ==
    MkArray(<<Len(cells), 1>>,
            LAMBDA idx : IF give_mean THEN Library(cells[idx[1]])
                         ELSE LibrarySample(cells[idx[1]]))

GetLatentLibrarySize(a, trained) ==
    IF trained = FALSE
    THEN Raised("get_latent_library_size", a, <<>>, <<>>,
                "RuntimeError", "Please train the model first.")
    ELSE Let(MakePosterior(a.indices, a.batch_size), LAMBDA post :
             Returned("get_latent_library_size", a,
                      <<"_validate_anndata", "_make_posterior">>
                          \o Repeat("sample_from_posterior_l", Len(post)),
                      <<>>,
                      NdArray(Concatenate(
                          [i \in 1..Len(post) |-> SampleFromPosteriorL(post[i], a.give_mean)],
                          0))))

\* n_batch of line 661
NBatch(px_rate, n_samples) == IF n_samples = 1 THEN px_rate.shape[1] ELSE px_rate.shape[2]

\* return_dict of lines 675-684; an absent key is None
LikelihoodDict(likelihood, means, dropout, dispersions) ==
    [type |-> "dict",
     mean |-> Some(means),
     dropout |-> IF likelihood = "zinb" THEN Some(dropout) ELSE None,
     dispersions |-> IF likelihood \in {"zinb", "nb"} THEN Some(dispersions) ELSE None]

GetLikelihoodParameters(a, likelihood, disp) ==
    Let(MakePosterior(a.indices, a.batch_size), LAMBDA post :
    Let([i \in 1..Len(post) |-> Inference(post[i], a.n_samples, disp)], LAMBDA outputs :
    Let([i \in 1..Len(post) |->
            RepeatNewAxis(outputs[i].px_r, NBatch(outputs[i].px_rate, a.n_samples))],
        LAMBDA dispersion_list :
    Let([i \in 1..Len(post) |-> outputs[i].px_rate], LAMBDA mean_list :
    Let([i \in 1..Len(post) |-> outputs[i].px_dropout], LAMBDA dropout_list :
    Let(<<"_validate_anndata", "_make_posterior">> \o Repeat("inference", Len(post)),
        LAMBDA events :
        IF \/ ~CanConcatenate(dropout_list, 0)
           \/ ~CanConcatenate(mean_list, 0)
           \/ ~CanConcatenate(dispersion_list, 0)
        THEN Raised("get_likelihood_parameters", a, events, <<>>,
                    "ValueError", "all the input array dimensions must match")
        ELSE Let(Concatenate(dropout_list, 0), LAMBDA dropout :
             Let(Concatenate(mean_list, 0), LAMBDA means :
             Let(Concatenate(dispersion_list, 0), LAMBDA dispersions :
                 Returned("get_likelihood_parameters", a, events, <<>>,
                          IF a.give_mean /\ a.n_samples > 1
                          THEN LikelihoodDict(likelihood, Mean0(means), Mean0(dropout),
                                              dispersions)
                          ELSE LikelihoodDict(likelihood, means, dropout,
                                              dispersions)))))))))))

-----------------------------------------------------------------------------
(* RNASeqMixin.differential_expression *)

\* adata.obs[groupby] == group: a boolean per cell
ObsEquals(groupby, group) == [c \in 1..n_obs |-> obs[groupby][c] = group]

\* a complement that selects every cell
ComplementAsAll(mask) == [c \in 1..Len(mask) |-> TRUE]

\* ~cell_idx1
Complement(mask) == [c \in 1..Len(mask) |-> ~mask[c]]

\* the cells a boolean mask selects
CellsOf(mask) == {c \in 1..Len(mask) : mask[c]}

\* one collaborator call in the trace of a comparison
Invoked(fn, args) == [fn |-> fn, args |-> args]

\* A dict is the sequence of its (key, value) entries in insertion order.
DictKeys(d) == [k \in 1..Len(d) |-> d[k].key]
HasKey(d, key) == \E k \in 1..Len(d) : d[k].key = key
DictGet(d, key) == d[CHOOSE k \in 1..Len(d) : d[k].key = key].value

\* a merge that keeps only the entries of d1
DictMergeKeepingFirst(d1, d2) == d1

\* {**d1, **d2}: the entries of d1, with the value of d2 where d2 has the key,
\* followed by the entries of d2 whose key is new
DictMerge(d1, d2) ==
    [k \in 1..Len(d1) |->
        IF HasKey(d2, d1[k].key) THEN [key |-> d1[k].key, value |-> DictGet(d2, d1[k].key)]
        ELSE d1[k]]
    \o SelectSeq(d2, LAMBDA e : ~HasKey(d1, e.key))

\* the statistics DifferentialComputation reports per mode
ModeStatistics(mode) ==
    IF mode = "change" THEN <<"proba_de", "proba_not_de">> ELSE <<"bayes_factor">>

StatisticWeight(name) ==
    CASE name = "bayes_factor" -> 0
      [] name = "proba_de" -> 1
      [] name = "proba_not_de" -> 2

\* the value of one statistic for gene j: decided by the two groups, the
\* options, the random seed and the parameters of the model
Statistic(name, idx1, idx2, use_permutation, seed, p, j) ==
    (StatisticWeight(name) + j * j + seed * j
       + Cardinality(CellsOf(idx1)) + 2 * Cardinality(CellsOf(idx2))
       + (IF use_permutation THEN j ELSE 0)
       + (IF p = "fitted" THEN 1 ELSE 0)) % 4

\* a computation that accepts any mode
GetBayesFactorsAnyMode(idx1, idx2, mode, use_permutation, seed, p) ==
    IF CellsOf(idx1) = {} \/ CellsOf(idx2) = {}
    THEN [raised |-> "ValueError", msg |-> "degenerate comparison",
          events |-> <<>>, all_info |-> <<>>]
    ELSE
    [raised |-> "none", msg |-> "",
     events |-> <<Invoked("model_fn", <<CellsOf(idx1)>>),
                  Invoked("model_fn", <<CellsOf(idx2)>>)>>,
     all_info |->
         [k \in 1..Len(ModeStatistics(mode)) |->
             [key |-> ModeStatistics(mode)[k],
              value |-> [j \in 1..n_vars |->
                            Statistic(ModeStatistics(mode)[k], idx1, idx2,
                                      use_permutation, seed, p, j)]]]]

\* DifferentialComputation(model_fn, adata).get_bayes_factors(idx1, idx2, mode,
\* use_permutation): a degenerate group or an unknown mode is refused before
\* anything is decoded; otherwise each group is decoded through model_fn
GetBayesFactors(idx1, idx2, mode, use_permutation, seed, p) ==
    IF CellsOf(idx1) = {} \/ CellsOf(idx2) = {}
    THEN [raised |-> "ValueError", msg |-> "degenerate comparison",
          events |-> <<>>, all_info |-> <<>>]
    ELSE IF mode \notin {"vanilla", "change"}
    THEN [raised |-> "ValueError", msg |-> "unknown mode",
          events |-> <<>>, all_info |-> <<>>]
    ELSE [raised |-> "none", msg |-> "",
          events |-> <<Invoked("model_fn", <<CellsOf(idx1)>>),
                       Invoked("model_fn", <<CellsOf(idx2)>>)>>,
          all_info |->
              [k \in 1..Len(ModeStatistics(mode)) |->
                  [key |-> ModeStatistics(mode)[k],
                   value |-> [j \in 1..n_vars |->
                                 Statistic(ModeStatistics(mode)[k], idx1, idx2,
                                           use_permutation, seed, p, j)]]]]

\* scrna_raw_counts_properties(adata, idx1, idx2): six per-gene statistics of
\* the raw counts, each written as what it measures and over which cells
RawStatistic(measure, idx) ==
    [j \in 1..n_vars |-> [measure |-> measure, gene |-> j, cells |-> CellsOf(idx)]]

ScrnaRawCountsProperties(idx1, idx2) ==
    [mean1 |-> RawStatistic("mean", idx1),
     mean2 |-> RawStatistic("mean", idx2),
     nonz1 |-> RawStatistic("non_zeros_proportion", idx1),
     nonz2 |-> RawStatistic("non_zeros_proportion", idx2),
     norm_mean1 |-> RawStatistic("normalized_mean", idx1),
     norm_mean2 |-> RawStatistic("normalized_mean", idx2)]

\* genes_properties_dict of lines 379-386
GenesPropertiesDict(props) ==
    <<[key |-> "raw_mean1", value |-> props.mean1],
      [key |-> "raw_mean2", value |-> props.mean2],
      [key |-> "non_zeros_proportion1", value |-> props.nonz1],
      [key |-> "non_zeros_proportion2", value |-> props.nonz2],
      [key |-> "raw_normalized_mean1", value |-> props.norm_mean1],
      [key |-> "raw_normalized_mean2", value |-> props.norm_mean2]>>

\* a sort key that is proba_not_de in change mode
SortKeyNotDe(mode) == IF mode = "change" THEN "proba_not_de" ELSE "bayes_factor"

\* sort_key of line 390
SortKey(mode) == IF mode = "change" THEN "proba_de" ELSE "bayes_factor"

\* the row order of sort_values(by, ascending=False): a permutation of the
\* rows that puts the values in descending order (which one, among equal
\* values, is the sorting algorithm's choice)
DescendingOrder(values) ==
    CHOOSE order \in [1..Len(values) -> 1..Len(values)] :
        /\ \A a, b \in 1..Len(values) : a # b => order[a] # order[b]
        /\ \A a \in 1..(Len(values) - 1) : values[order[a]] >= values[order[a + 1]]

\* pd.DataFrame(all_info, index=gene_names) with its rows in the given order
Table(all_info, index, order) ==
    [type |-> "DataFrame",
     columns |-> DictKeys(all_info),
     index |-> [r \in 1..Len(order) |-> index[order[r]]],
     values |-> [k \in 1..Len(all_info) |->
                    [r \in 1..Len(order) |-> all_info[k].value[order[r]]]]]

\* a.seed is the state of the random generator when the call is made; p is
\* the parameters of the module
DifferentialExpression(a, p) ==
    Let(ObsEquals(a.groupby, a.group1), LAMBDA cell_idx1 :
    Let(IF IsNone(a.group2) THEN Complement(cell_idx1)
        ELSE ObsEquals(a.groupby, Get(a.group2)), LAMBDA cell_idx2 :
    Let(GetBayesFactors(cell_idx1, cell_idx2, a.mode, a.use_permutation, a.seed, p),
        LAMBDA bf :
    Let(<<Invoked("_validate_anndata", <<>>),
          Invoked("get_bayes_factors",
                  <<cell_idx1, cell_idx2, a.mode, a.use_permutation>>)>> \o bf.events,
        LAMBDA events :
        IF bf.raised # "none"
        THEN Raised("differential_expression", a, events, <<>>, bf.raised, bf.msg)
        ELSE
        Let(IF a.all_stats
            THEN DictMerge(bf.all_info,
                           GenesPropertiesDict(ScrnaRawCountsProperties(cell_idx1, cell_idx2)))
            ELSE bf.all_info, LAMBDA all_info :
        Let(IF a.all_stats
            THEN events \o <<Invoked("scrna_raw_counts_properties",
                                     <<cell_idx1, cell_idx2>>)>>
            ELSE events, LAMBDA events2 :
            IF ~HasKey(all_info, SortKey(a.mode))
            THEN Raised("differential_expression", a, events2, <<>>,
                        "KeyError", SortKey(a.mode))
            ELSE Returned("differential_expression", a, events2, <<>>,
                          Table(all_info, GetVarNamesFromSetupAnndata,
                                DescendingOrder(DictGet(all_info, SortKey(a.mode)))))))))))

-----------------------------------------------------------------------------
(* Inputs *)

RECURSIVE SeqsUpTo(_, _)
SeqsUpTo(S, n) ==
    IF n = 0 THEN {<<>>}
    ELSE LET shorter == SeqsUpTo(S, n - 1)
         IN  shorter \cup {Append(s, x) : s \in {t \in shorter : Len(t) = n - 1}, x \in S}

Rows == SeqsUpTo(1..n_obs, MaxRows) \ {<<>>}
IndicesArgs == {None} \cup {Some(r) : r \in Rows}
BatchSizes == 1..MaxBatch
SampleCounts == 1..MaxSamples
GeneListArgs ==
    {None, Some(<<"G1", "G3">>), Some(<<"G3", "G1">>), Some(<<"G2">>), Some(<<"G1", "G1">>)}
LibrarySizes ==
    {[kind |-> "latent", val |-> 0], [kind |-> "scalar", val |-> 3]}
TransformBatchArgs == {None, Some("b1")}
OptionalBools == {None, Some(TRUE), Some(FALSE)}
Likelihoods == {"zinb", "nb", "poisson", "normal"}
Dispersions == {"gene", "gene-cell"}
CorrTransformBatchArgs ==
    {[kind |-> "none", val |-> <<>>], [kind |-> "int", val |-> <<1>>],
     [kind |-> "list", val |-> <<0, 1>>], [kind |-> "list", val |-> <<>>]}
CorrelationTypes == {"pearson", "spearman", "kendall"}
\* datasets a caller may pass: of the same structure as the model's own
GivenDatasets ==
    {[id |-> "given", is_view |-> v, has_setup |-> u, is_count |-> n] :
        v \in BOOLEAN, u \in BOOLEAN, n \in BOOLEAN}
AdataArgs == {None} \cup {Some(d) : d \in GivenDatasets}
GroupByArgs == {"cell_type", "cluster"}
Group1Args == {"A", "B", "x"}
Group2Args == {None, Some("A"), Some("B")}
Modes == {"vanilla", "change", "other"}
Seeds == {0, 1}
\* train_size, as the number of cells it leaves in the training set
TrainSizes == {n_obs - 1, n_obs}

-----------------------------------------------------------------------------
(* Actions *)

\* the dataset the model was constructed on: registered, not a view, counts
OwnDataset == [id |-> "own", is_view |-> FALSE, has_setup |-> TRUE, is_count |-> TRUE]

\* adata.uns["_scvi"] of that dataset
SetupDict == [summary_stats |-> [n_cells |-> n_obs, n_genes |-> n_vars,
                                 n_batch |-> Len(batch_categories)]]

\* the split UnsupervisedTrainer makes of the dataset for a given number of
\* training cells
TrainerSplit(n_train) ==
    [train |-> [i \in 1..n_train |-> i],
     test |-> [i \in 1..(n_obs - n_train) |-> n_train + i],
     validation |-> <<>>]

-----------------------------------------------------------------------------
(* VAEMixin.train: the arguments handed to the trainer *)

\* n_epochs: int = 400 and lr: float = 1e-3 of the signature; lr is counted
\* in units of 1e-4
DefaultNEpochs == 400
DefaultLr == 10

\* the dict train_fun_kwargs is bound to on entry: the caller's, or the
\* default object of the signature when the caller passes none
PassedKwargs(arg, default) == IF IsNone(arg) THEN default ELSE Get(arg)

\* if key not in d: d[key] = value
SetDefault(d, key, value) ==
    IF HasKey(d, key) THEN d ELSE Append(d, [key |-> key, value |-> value])

\* lines 88-91
MergedKwargs(d, n_epochs, lr) ==
    SetDefault(SetDefault(d, "n_epochs", n_epochs), "lr", lr)

\* a train that writes lines 88-91 into the dict it was passed
KwargsWrittenInPlace(passed, merged) == merged

\* The dict that was passed, as the call leaves it: line 71 rebinds
\* train_fun_kwargs to a copy, so lines 88-91 write to the copy.
KwargsLeft(passed, merged) == passed

\* a train that builds a trainer on every call
ConstructsTrainerAlways(trained) == TRUE

\* the test of line 72
ConstructsTrainer(trained) == trained = FALSE

-----------------------------------------------------------------------------
(* BaseModelClass.__init__ and the constructor of the model class *)

\* Attribute names are split at their underscores: is_trained_ is
\* <<"is", "_", "trained", "_">>.
Attr(name, value) == [key |-> name, value |-> value]

IS_TRAINED_ == <<"is", "_", "trained", "_">>
TRAIN_INDICES_ == <<"train", "_", "indices", "_">>
TEST_INDICES_ == <<"test", "_", "indices", "_">>
VALIDATION_INDICES_ == <<"validation", "_", "indices", "_">>
SCVI_SETUP_DICT_ == <<"scvi", "_", "setup", "_", "dict", "_">>
INIT_PARAMS_ == <<"init", "_", "params", "_">>

\* values of constructor arguments, with what isinstance(v, dict) says of them
Plain(v) == [type |-> "plain", val |-> v]
Dict(d) == [type |-> "dict", val |-> d]

\* self._get_init_params(locals()): the arguments of the constructor by
\* name, the dataset left out
GetInitParams(disp, likelihood, kwargs) ==
    <<[key |-> "dispersion", value |-> Plain(disp)],
      [key |-> "gene_likelihood", value |-> Plain(likelihood)],
      [key |-> "kwargs", value |-> Dict(kwargs)]>>

\* use_observed_lib_size of the module built from **kwargs
ObservedLibSize(kwargs) ==
    IF HasKey(kwargs, "use_observed_lib_size")
    THEN DictGet(kwargs, "use_observed_lib_size").val
    ELSE TRUE

\* The attributes of a wrapper after cls(adata, dispersion=..., gene_likelihood=...,
\* **kwargs); sets_init_params says whether the constructor of the class ends
\* with self.init_params_ = self._get_init_params(locals()).
Constructed(dataset, disp, likelihood, kwargs, sets_init_params) ==
    [is_trained_ |-> FALSE,
     gene_likelihood |-> likelihood,
     dispersion |-> disp,
     params |-> "initial",
     train_indices_ |-> None,
     test_indices_ |-> None,
     validation_indices_ |-> None,
     scvi_setup_dict_ |-> SetupDict,
     adata |-> dataset,
     trainer |-> None,
     init_params_ |-> IF sets_init_params
                      THEN Some(GetInitParams(disp, likelihood, kwargs))
                      ELSE None,
     use_observed_lib_size |-> ObservedLibSize(kwargs),
     minified_data_type |-> None]

-----------------------------------------------------------------------------
(* BaseModelClass.save *)

\* a[0].startswith("__") and a[0].endswith("__")
IsDunder(name) ==
    /\ Len(name) >= 2
    /\ name[1] = "_" /\ name[2] = "_"
    /\ name[Len(name)] = "_" /\ name[Len(name) - 1] = "_"

\* a[0].startswith("_abc_")
IsAbc(name) == Len(name) >= 3 /\ name[1] = "_" /\ name[2] = "abc" /\ name[3] = "_"

\* a[0][-1] == "_"
EndsWithUnderscore(name) == name[Len(name)] = "_"

\* inspect.getmembers(self, lambda a: not inspect.isroutine(a)) for the
\* wrapper m: its attributes and properties in the order of their names
Members(m) ==
    <<Attr(<<"_", "_", "doc", "_", "_">>, "docstring"),
      Attr(<<"_", "abc", "_", "impl">>, "abc data"),
      Attr(<<"_", "model", "_", "summary", "_", "string">>, ""),
      Attr(<<"adata">>, m.adata)>>
    \o (IF IsNone(m.init_params_) THEN <<>>
        ELSE <<Attr(INIT_PARAMS_, Get(m.init_params_))>>)
    \o <<Attr(<<"is", "_", "trained">>, m.is_trained_),
         Attr(IS_TRAINED_, m.is_trained_),
         Attr(<<"model">>, m.params),
         Attr(SCVI_SETUP_DICT_, m.scvi_setup_dict_),
         Attr(<<"summary", "_", "stats">>, m.scvi_setup_dict_.summary_stats),
         Attr(<<"test", "_", "indices">>, m.test_indices_),
         Attr(TEST_INDICES_, m.test_indices_),
         Attr(<<"train", "_", "indices">>, m.train_indices_),
         Attr(TRAIN_INDICES_, m.train_indices_)>>
    \o (IF IsNone(m.trainer) THEN <<>> ELSE <<Attr(<<"trainer">>, Get(m.trainer))>>)
    \o <<Attr(<<"use", "_", "cuda">>, FALSE),
         Attr(<<"validation", "_", "indices">>, m.validation_indices_),
         Attr(VALIDATION_INDICES_, m.validation_indices_)>>

\* _get_user_attributes
GetUserAttributes(m) ==
    SelectSeq(Members(m), LAMBDA a : ~IsDunder(a.key) /\ ~IsAbc(a.key))

\* a save that keeps every user attribute
IsSavedAttributeAny(name) == TRUE

\* the test of line 859
IsSavedAttribute(name) == EndsWithUnderscore(name)

\* user_attributes of lines 857-860
SavedAttributes(m) == SelectSeq(GetUserAttributes(m), LAMBDA a : IsSavedAttribute(a.key))

\* pickle.dump / pickle.load and torch.save / torch.load: the bytes of a file
\* hold the object and the format it was written in
Pickled(object) == [format |-> "pickle", object |-> object]
Unpickled(bytes) == bytes.object
StateDictFile(parameters) == [format |-> "torch", state_dict |-> parameters]
StateDictOf(bytes) == bytes.state_dict

\* what is at a path: nothing, or a directory and its files by name
Absent == [kind |-> "absent", files |-> <<>>]
Directory(files) == [kind |-> "dir", files |-> files]

\* os.path.exists(dir_path)
Exists(entry) == entry.kind # "absent"

\* a save that writes whatever is at dir_path
MayWriteAlways(exists, overwrite) == TRUE

\* the test of line 862
MayWrite(exists, overwrite) == ~exists \/ overwrite

\* os.makedirs(dir_path, exist_ok=overwrite), called when MayWrite holds
MakeDirs(entry) == IF Exists(entry) THEN entry ELSE Directory(<<>>)

\* open(os.path.join(dir_path, name), "wb") and the write into it
WriteFile(entry, name, bytes) ==
    Directory(DictMerge(entry.files, <<[key |-> name, value |-> bytes]>>))

\* save(dir_path, overwrite) of the wrapper m when entry is at dir_path: the
\* record of the call and what is at dir_path after it
Save(a, m, entry) ==
    IF ~MayWrite(Exists(entry), a.overwrite)
    THEN [call |-> Raised("save", a, <<"os.path.exists">>, <<>>, "ValueError",
                          "already exists. Please provide an unexisting directory for saving."),
          entry |-> entry]
    ELSE [call |-> Returned("save", a,
                            <<"os.path.exists", "os.makedirs", "torch.save", "pickle.dump">>,
                            <<>>, NoResult),
          entry |-> WriteFile(WriteFile(MakeDirs(entry), "model_params.pt",
                                        StateDictFile(m.params)),
                              "attr.pkl", Pickled(SavedAttributes(m)))]

-----------------------------------------------------------------------------
(* BaseModelClass.load *)

\* a load that takes init_params_ for granted
InitParamsAssumed(attr_dict) == TRUE

\* the test of line 905
InitParamsSaved(attr_dict) == HasKey(attr_dict, INIT_PARAMS_)

\* non_kwargs of line 911
NonKwargs(init_params) == SelectSeq(init_params, LAMBDA e : e.value.type # "dict")

\* kwargs of lines 912-913: the entries of every dict-valued parameter
RECURSIVE FlattenKwargs(_)
FlattenKwargs(init_params) ==
    IF init_params = <<>> THEN <<>>
    ELSE (IF Head(init_params).value.type = "dict" THEN Head(init_params).value.val
          ELSE <<>>)
         \o FlattenKwargs(Tail(init_params))

\* cls(adata, **non_kwargs, **kwargs): the keywords that are not parameters
\* of the constructor by name are its **kwargs
Construct(dataset, keywords, sets_init_params) ==
    Constructed(dataset,
                DictGet(keywords, "dispersion").val,
                DictGet(keywords, "gene_likelihood").val,
                SelectSeq(keywords,
                          LAMBDA e : e.key \notin {"dispersion", "gene_likelihood"}),
                sets_init_params)

\* the value of attribute name after the setattr loop of lines 916-917
AttrAfter(attr_dict, name, constructed) ==
    IF HasKey(attr_dict, name) THEN DictGet(attr_dict, name) ELSE constructed

\* the wrapper m after setattr(model, attr, val) for every saved attribute
SetAttrs(m, attr_dict) ==
    [m EXCEPT
       !.is_trained_ = AttrAfter(attr_dict, IS_TRAINED_, @),
       !.train_indices_ = AttrAfter(attr_dict, TRAIN_INDICES_, @),
       !.test_indices_ = AttrAfter(attr_dict, TEST_INDICES_, @),
       !.validation_indices_ = AttrAfter(attr_dict, VALIDATION_INDICES_, @),
       !.scvi_setup_dict_ = AttrAfter(attr_dict, SCVI_SETUP_DICT_, @),
       !.adata = AttrAfter(attr_dict, <<"adata">>, @),
       !.trainer = IF HasKey(attr_dict, <<"trainer">>)
                   THEN Some(DictGet(attr_dict, <<"trainer">>)) ELSE @]

\* load(adata, dir_path) when entry is at dir_path, for a class whose
\* constructor sets init_params_ or not: the record of the call and the
\* wrapper returned, if one is
Load(a, entry, sets_init_params) ==
    IF ~HasKey(entry.files, "attr.pkl")
    THEN [call |-> Raised("load", a, <<"open">>, <<>>, "FileNotFoundError", "attr.pkl"),
          model |-> None]
    ELSE
    Let(Unpickled(DictGet(entry.files, "attr.pkl")), LAMBDA attr_dict :
    IF ~InitParamsSaved(attr_dict)
    THEN [call |-> Raised("load", a, <<"open", "pickle.load">>, <<>>, "ValueError",
                          "No init_params_ were saved by the model."),
          model |-> None]
    ELSE IF ~HasKey(attr_dict, INIT_PARAMS_)
    THEN [call |-> Raised("load", a, <<"open", "pickle.load">>, <<>>, "KeyError",
                          "init_params_"),
          model |-> None]
    ELSE
    Let(DictGet(attr_dict, INIT_PARAMS_), LAMBDA init_params :
    Let(SelectSeq(attr_dict, LAMBDA e : e.key # INIT_PARAMS_), LAMBDA rest :
    IF ~a.adata.has_setup
    THEN [call |-> Raised("load", a, <<"open", "pickle.load", "cls">>, <<>>, "ValueError",
                          "Please setup your AnnData with scvi.dataset.setup_anndata(adata) first"),
          model |-> None]
    ELSE
    Let(SetAttrs(Construct(a.adata, NonKwargs(init_params) \o FlattenKwargs(init_params),
                           sets_init_params),
                 rest), LAMBDA model :
    IF ~HasKey(entry.files, "model_params.pt")
    THEN [call |-> Raised("load", a, <<"open", "pickle.load", "cls", "setattr", "torch.load">>,
                          <<>>, "FileNotFoundError", "model_params.pt"),
          model |-> None]
    ELSE [call |-> Returned("load", a,
                            <<"open", "pickle.load", "cls", "setattr", "torch.load",
                              "load_state_dict", "eval", "_validate_anndata">>,
                            ValidateAnndata(Some(a.adata), TRUE, model.adata).log,
                            [type |-> "model"]),
          model |-> Some([model EXCEPT
                            !.params = StateDictOf(DictGet(entry.files,
                                                           "model_params.pt"))])]))))

-----------------------------------------------------------------------------
(* SCVI.minify_adata *)

\* ADATA_MINIFY_TYPE.LATENT_POSTERIOR
LATENT_POSTERIOR == "latent_posterior_parameters"

\* the keys of adata.obsm of the registered dataset
ObsmKeys == {"X_latent_qzm", "X_latent_qzv"}

\* a minification that takes every type
MinifySupportedAny(data_type) == TRUE

\* the test of line 396
MinifySupported(data_type) == data_type = LATENT_POSTERIOR

\* get_minified_adata_scrna(adata, minified_data_type): a new dataset object
\* without the counts
GetMinifiedAdataScrna(d, data_type) == [d EXCEPT !.id = "minified"]

\* minify_adata on a wrapper whose dataset is d: the record of the call, the
\* dataset and the module.minified_data_type the wrapper has after it
MinifyAdata(a, d, observed_lib_size, data_type) ==
    IF ~MinifySupported(a.minified_data_type)
    THEN [call |-> Raised("minify_adata", a, <<>>, <<>>, "NotImplementedError",
                          "Unknown MinifiedDataType"),
          adata |-> d, minified_data_type |-> data_type]
    ELSE IF observed_lib_size = FALSE
    THEN [call |-> Raised("minify_adata", a, <<>>, <<>>, "ValueError",
                          "Cannot minify the data if use_observed_lib_size is False"),
          adata |-> d, minified_data_type |-> data_type]
    ELSE IF a.use_latent_qzm_key \notin ObsmKeys \/ a.use_latent_qzv_key \notin ObsmKeys
    THEN [call |-> Raised("minify_adata", a, <<"get_minified_adata_scrna">>, <<>>,
                          "KeyError", "obsm"),
          adata |-> d, minified_data_type |-> data_type]
    ELSE [call |-> Returned("minify_adata", a,
                            <<"get_minified_adata_scrna", "get_from_registry",
                              "_update_adata_and_manager_post_minification">>,
                            <<>>, [type |-> "None", original_after |-> d]),
          adata |-> GetMinifiedAdataScrna(d, a.minified_data_type),
          minified_data_type |-> Some(a.minified_data_type)]

-----------------------------------------------------------------------------
(* Inputs of train, save, load and minify_adata *)

NEpochsArgs == {DefaultNEpochs, 2}
LrArgs == {DefaultLr, 5}
TrainFunKwargsArgs ==
    {None, Some(<<>>), Some(<<[key |-> "n_epochs", value |-> 7]>>),
     Some(<<[key |-> "lr", value |-> 3], [key |-> "n_epochs", value |-> 7]>>)}
Paths == {"model_dir"}
\* what may be at a path before the first save
InitialEntries == {Absent, Directory(<<>>)}
\* the datasets handed to load: the registered one, and one never set up
LoadDatasets ==
    {OwnDataset, [id |-> "given", is_view |-> FALSE, has_setup |-> FALSE, is_count |-> TRUE]}
\* **kwargs of the constructor
ModelKwargsArgs == {<<>>, <<[key |-> "use_observed_lib_size", value |-> Plain(FALSE)]>>}
MinifiedDataTypes == {LATENT_POSTERIOR, "other"}
LatentQzmKeys == {"X_latent_qzm", "X_missing"}
LatentQzvKeys == {"X_latent_qzv", "X_missing"}

-----------------------------------------------------------------------------
(* The model wrapper and its operations *)

\* the wrapper as a record of its attributes
Model ==
    [is_trained_ |-> is_trained_, gene_likelihood |-> gene_likelihood,
     dispersion |-> dispersion, params |-> params,
     train_indices_ |-> train_indices_, test_indices_ |-> test_indices_,
     validation_indices_ |-> validation_indices_,
     scvi_setup_dict_ |-> scvi_setup_dict_, adata |-> adata, trainer |-> trainer,
     init_params_ |-> init_params_, use_observed_lib_size |-> use_observed_lib_size,
     minified_data_type |-> minified_data_type]

\* a wrapper constructed over the registered dataset, nothing saved and
\* train not called yet
InitAny ==
    /\ \E likelihood \in Likelihoods, disp \in Dispersions, kwargs \in ModelKwargsArgs,
          sets_init_params \in BOOLEAN :
          LET m == Constructed(OwnDataset, disp, likelihood, kwargs, sets_init_params)
          IN  /\ is_trained_ = m.is_trained_
              /\ gene_likelihood = m.gene_likelihood
              /\ dispersion = m.dispersion
              /\ params = m.params
              /\ train_indices_ = m.train_indices_
              /\ test_indices_ = m.test_indices_
              /\ validation_indices_ = m.validation_indices_
              /\ scvi_setup_dict_ = m.scvi_setup_dict_
              /\ adata = m.adata
              /\ trainer = m.trainer
              /\ init_params_ = m.init_params_
              /\ use_observed_lib_size = m.use_observed_lib_size
              /\ minified_data_type = m.minified_data_type
    /\ disk \in [Paths -> InitialEntries]
    /\ train_fun_kwargs_default = <<>>
    /\ call = NoCall

\* a wrapper of a class that sets init_params_, constructed without **kwargs
\* while nothing is at any path
Init ==
    /\ InitAny
    /\ init_params_ # None
    /\ use_observed_lib_size = TRUE
    /\ disk = [p \in Paths |-> Absent]

\* VAEMixin.train(n_epochs, lr, train_fun_kwargs) with a trainer whose train
\* returns normally, or raises if trainer_raises.  The record of the call
\* holds the keywords the trainer's train was called with (train_kwargs) and
\* the dict the caller passed as the call leaves it (caller_kwargs).
TrainWith(trainer_raises) ==
    /\ call = NoCall
    /\ \E n_epochs \in NEpochsArgs, lr \in LrArgs, kwargs \in TrainFunKwargsArgs,
          n_train \in TrainSizes :
          LET a == [n_epochs |-> n_epochs, lr |-> lr, train_fun_kwargs |-> kwargs]
              passed == PassedKwargs(kwargs, train_fun_kwargs_default)
              merged == MergedKwargs(passed, n_epochs, lr)
              left == KwargsLeft(passed, merged)
              constructs == ConstructsTrainer(is_trained_)
              used == IF constructs THEN Some(TrainerSplit(n_train)) ELSE trainer
              events == IF constructs THEN <<"UnsupervisedTrainer">> ELSE <<>>
              outcome == [type |-> "None", train_kwargs |-> merged, caller_kwargs |-> left]
          IN  /\ trainer' = used
              /\ IF constructs
                 THEN /\ train_indices_' = Some(Get(used).train)
                      /\ test_indices_' = Some(Get(used).test)
                      /\ validation_indices_' = Some(Get(used).validation)
                 ELSE UNCHANGED <<train_indices_, test_indices_, validation_indices_>>
              /\ train_fun_kwargs_default' =
                     IF IsNone(kwargs) THEN left ELSE train_fun_kwargs_default
              /\ IF IsNone(used)
                 THEN /\ ~trainer_raises
                      /\ call' = [Raised("train", a, events, <<>>, "AttributeError",
                                         "object has no attribute 'trainer'")
                                     EXCEPT !.result = outcome]
                      /\ UNCHANGED <<is_trained_, params>>
                 ELSE IF trainer_raises
                 THEN /\ call' = [Raised("train", a, events \o <<"trainer.train">>, <<>>,
                                         "RuntimeError", "raised by trainer.train")
                                     EXCEPT !.result = outcome]
                      /\ params' \in {params, "fitted"}
                      /\ UNCHANGED is_trained_
                 ELSE /\ call' = Returned("train", a, events \o <<"trainer.train">>, <<>>,
                                          outcome)
                      /\ params' = "fitted"
                      /\ is_trained_' = TRUE
    /\ UNCHANGED <<gene_likelihood, dispersion, scvi_setup_dict_, adata, init_params_,
                   use_observed_lib_size, minified_data_type, disk>>

\* VAEMixin.train when the trainer's train returns
Train == TrainWith(FALSE)

\* VAEMixin.train when the trainer's train raises
TrainRaising == TrainWith(TRUE)

\* BaseModelClass.save
CallSave ==
    /\ call = NoCall
    /\ \E dir_path \in Paths, overwrite \in BOOLEAN :
          LET r == Save([dir_path |-> dir_path, overwrite |-> overwrite], Model,
                        disk[dir_path])
          IN  /\ call' = r.call
              /\ disk' = [disk EXCEPT ![dir_path] = r.entry]
    /\ UNCHANGED <<self, train_fun_kwargs_default>>

\* BaseModelClass.load, called on the class of the wrapper at hand; the
\* wrapper it returns is the one the caller goes on with
CallLoad ==
    /\ call = NoCall
    /\ \E dataset \in LoadDatasets, dir_path \in Paths :
          LET r == Load([adata |-> dataset, dir_path |-> dir_path], disk[dir_path],
                        ~IsNone(init_params_))
          IN  /\ call' = r.call
              /\ IF IsNone(r.model)
                 THEN UNCHANGED self
                 ELSE LET m == Get(r.model)
                      IN  /\ is_trained_' = m.is_trained_
                          /\ gene_likelihood' = m.gene_likelihood
                          /\ dispersion' = m.dispersion
                          /\ params' = m.params
                          /\ train_indices_' = m.train_indices_
                          /\ test_indices_' = m.test_indices_
                          /\ validation_indices_' = m.validation_indices_
                          /\ scvi_setup_dict_' = m.scvi_setup_dict_
                          /\ adata' = m.adata
                          /\ trainer' = m.trainer
                          /\ init_params_' = m.init_params_
                          /\ use_observed_lib_size' = m.use_observed_lib_size
                          /\ minified_data_type' = m.minified_data_type
    /\ UNCHANGED env

\* SCVI.minify_adata
CallMinifyAdata ==
    /\ call = NoCall
    /\ \E data_type \in MinifiedDataTypes, qzm \in LatentQzmKeys, qzv \in LatentQzvKeys :
          LET r == MinifyAdata([minified_data_type |-> data_type,
                                use_latent_qzm_key |-> qzm, use_latent_qzv_key |-> qzv],
                               adata, use_observed_lib_size, minified_data_type)
          IN  /\ call' = r.call
              /\ adata' = r.adata
              /\ minified_data_type' = r.minified_data_type
    /\ UNCHANGED <<is_trained_, gene_likelihood, dispersion, params, train_indices_,
                   test_indices_, validation_indices_, scvi_setup_dict_, trainer,
                   init_params_, use_observed_lib_size, env>>

\* the caller drops the value a query returned (or the exception it raised)
Discard ==
    /\ call # NoCall
    /\ call' = NoCall
    /\ UNCHANGED <<self, env>>

CallGetNormalizedExpression ==
    /\ call = NoCall
    /\ \E indices \in IndicesArgs, transform_batch \in TransformBatchArgs,
          gene_list \in GeneListArgs, library_size \in LibrarySizes,
          n_samples \in SampleCounts, batch_size \in BatchSizes,
          return_mean \in BOOLEAN, return_numpy \in OptionalBools :
          call' = GetNormalizedExpression(
                      [indices |-> indices, transform_batch |-> transform_batch,
                       gene_list |-> gene_list, library_size |-> library_size,
                       n_samples |-> n_samples, batch_size |-> batch_size,
                       return_mean |-> return_mean, return_numpy |-> return_numpy])
    /\ UNCHANGED <<self, env>>

CallPosteriorPredictiveSample ==
    /\ call = NoCall
    /\ \E indices \in IndicesArgs, n_samples \in SampleCounts,
          gene_list \in GeneListArgs, batch_size \in BatchSizes :
          call' = PosteriorPredictiveSample(
                      [indices |-> indices, n_samples |-> n_samples,
                       gene_list |-> gene_list, batch_size |-> batch_size],
                      gene_likelihood, dispersion)
    /\ UNCHANGED <<self, env>>

CallGetDenoisedSamples ==
    /\ call = NoCall
    /\ \E indices \in IndicesArgs, n_samples \in SampleCounts,
          batch_size \in BatchSizes, transform_batch \in {None, Some(0), Some(1)} :
          call' = GetDenoisedSamples(
                      [indices |-> indices, n_samples |-> n_samples,
                       batch_size |-> batch_size,
                       rna_size_factor |-> DefaultRnaSizeFactor,
                       transform_batch |-> transform_batch],
                      dispersion)
    /\ UNCHANGED <<self, env>>

CallGetFeatureCorrelationMatrix ==
    /\ call = NoCall
    /\ \E indices \in IndicesArgs, n_samples \in SampleCounts, batch_size \in BatchSizes,
          transform_batch \in CorrTransformBatchArgs,
          correlation_type \in CorrelationTypes :
          call' = GetFeatureCorrelationMatrix(
                      [indices |-> indices, n_samples |-> n_samples,
                       batch_size |-> batch_size,
                       rna_size_factor |-> DefaultRnaSizeFactor,
                       transform_batch |-> transform_batch,
                       correlation_type |-> correlation_type],
                      dispersion)
    /\ UNCHANGED <<self, env>>

CallGetLatentLibrarySize ==
    /\ call = NoCall
    /\ \E indices \in IndicesArgs, give_mean \in BOOLEAN, batch_size \in BatchSizes :
          call' = GetLatentLibrarySize(
                      [indices |-> indices, give_mean |-> give_mean,
                       batch_size |-> batch_size],
                      is_trained_)
    /\ UNCHANGED <<self, env>>

CallGetLikelihoodParameters ==
    /\ call = NoCall
    /\ \E indices \in IndicesArgs, n_samples \in SampleCounts,
          give_mean \in BOOLEAN, batch_size \in BatchSizes :
          call' = GetLikelihoodParameters(
                      [indices |-> indices, n_samples |-> n_samples,
                       give_mean |-> give_mean, batch_size |-> batch_size],
                      gene_likelihood, dispersion)
    /\ UNCHANGED <<self, env>>

\* a comparison that hands back the table of the comparison before it
CallDifferentialExpressionReusing ==
    /\ call = NoCall \/ call.op = "differential_expression"
    /\ \E groupby \in GroupByArgs, group1 \in Group1Args, group2 \in Group2Args,
          mode \in Modes, all_stats \in BOOLEAN, use_permutation \in BOOLEAN,
          seed \in Seeds :
          LET fresh == DifferentialExpression(
                           [groupby |-> groupby, group1 |-> group1, group2 |-> group2,
                            mode |-> mode, all_stats |-> all_stats,
                            use_permutation |-> use_permutation, seed |-> seed],
                           params)
          IN  call' = IF call.op = "differential_expression" /\ call.raised = "none"
                         /\ fresh.raised = "none"
                      THEN [fresh EXCEPT !.result = call.result]
                      ELSE fresh
    /\ UNCHANGED <<self, env>>

\* A comparison may follow another comparison directly, the caller still
\* holding the outcome of the earlier one.
CallDifferentialExpression ==
    /\ call = NoCall \/ call.op = "differential_expression"
    /\ \E groupby \in GroupByArgs, group1 \in Group1Args, group2 \in Group2Args,
          mode \in Modes, all_stats \in BOOLEAN, use_permutation \in BOOLEAN,
          seed \in Seeds :
          call' = DifferentialExpression(
                      [groupby |-> groupby, group1 |-> group1, group2 |-> group2,
                       mode |-> mode, all_stats |-> all_stats,
                       use_permutation |-> use_permutation, seed |-> seed],
                      params)
    /\ UNCHANGED <<self, env>>

\* a get_elbo that marks the model as trained
CallGetElboMarkingTrained ==
    /\ call = NoCall
    /\ \E indices \in IndicesArgs, batch_size \in BatchSizes :
          call' = MetricQuery("get_elbo", "elbo",
                              [indices |-> indices, batch_size |-> batch_size], params)
    /\ is_trained_' = TRUE
    /\ UNCHANGED <<gene_likelihood, dispersion, params, train_indices_, test_indices_,
                   validation_indices_, scvi_setup_dict_, adata, trainer, init_params_,
                   use_observed_lib_size, minified_data_type, env>>

CallGetElbo ==
    /\ call = NoCall
    /\ \E indices \in IndicesArgs, batch_size \in BatchSizes :
          call' = MetricQuery("get_elbo", "elbo",
                              [indices |-> indices, batch_size |-> batch_size], params)
    /\ UNCHANGED <<self, env>>

CallGetMarginalLl ==
    /\ call = NoCall
    /\ \E indices \in IndicesArgs, batch_size \in BatchSizes :
          call' = MetricQuery("get_marginal_ll", "marginal_ll",
                              [indices |-> indices, n_mc_samples |-> DefaultNMcSamples,
                               batch_size |-> batch_size], params)
    /\ UNCHANGED <<self, env>>

CallGetReconstructionError ==
    /\ call = NoCall
    /\ \E indices \in IndicesArgs, batch_size \in BatchSizes :
          call' = MetricQuery("get_reconstruction_error", "reconstruction_error",
                              [indices |-> indices, batch_size |-> batch_size], params)
    /\ UNCHANGED <<self, env>>

CallGetLatentRepresentation ==
    /\ call = NoCall
    /\ \E indices \in IndicesArgs, give_mean \in BOOLEAN, batch_size \in BatchSizes :
          call' = GetLatentRepresentation(
                      [indices |-> indices, give_mean |-> give_mean,
                       mc_samples |-> DefaultMcSamples, batch_size |-> batch_size],
                      is_trained_)
    /\ UNCHANGED <<self, env>>

CallValidateAnndata ==
    /\ call = NoCall
    /\ \E adata_arg \in AdataArgs, copy_if_view \in BOOLEAN :
          call' = CallOfValidateAnndata(
                      [adata |-> adata_arg, copy_if_view |-> copy_if_view], adata)
    /\ UNCHANGED <<self, env>>

\* a model constructed with the default likelihood and dispersion
InitExpr == Init /\ gene_likelihood = "zinb" /\ dispersion = "gene"

NextExpr == Train \/ Discard \/ CallGetNormalizedExpression

SpecExpr == InitExpr /\ [][NextExpr]_vars

\* the samplers, on a model of any likelihood and dispersion
NextSample == Train \/ Discard \/ CallPosteriorPredictiveSample \/ CallGetDenoisedSamples

SpecSample == Init /\ [][NextSample]_vars

\* the correlation estimator, on a model of the default likelihood
InitCorr == Init /\ gene_likelihood = "zinb"

NextCorr == Train \/ Discard \/ CallGetFeatureCorrelationMatrix

SpecCorr == InitCorr /\ [][NextCorr]_vars

\* the Expression Query Engine, on a model of the default likelihood and dispersion
NextQuery ==
    \/ Train
    \/ Discard
    \/ CallGetNormalizedExpression
    \/ CallGetLatentLibrarySize
    \/ CallGetLikelihoodParameters

SpecQuery == InitExpr /\ [][NextQuery]_vars

\* the likelihood parameters, on every model
NextParams == Train \/ Discard \/ CallGetLikelihoodParameters

SpecParams == Init /\ [][NextParams]_vars

\* the differential expression engine, on a model of the default likelihood
\* and dispersion
NextDE == Train \/ Discard \/ CallDifferentialExpression

SpecDE == InitExpr /\ [][NextDE]_vars

\* dataset validation, on every model
NextValidate == Train \/ Discard \/ CallValidateAnndata

SpecValidate == Init /\ [][NextValidate]_vars

\* every operation, on a model of the default likelihood and dispersion
NextFrame ==
    \/ Train
    \/ Discard
    \/ CallGetElbo
    \/ CallGetMarginalLl
    \/ CallGetReconstructionError
    \/ CallGetLatentRepresentation
    \/ CallGetNormalizedExpression
    \/ CallGetLatentLibrarySize
    \/ CallGetLikelihoodParameters
    \/ CallPosteriorPredictiveSample
    \/ CallGetDenoisedSamples
    \/ CallGetFeatureCorrelationMatrix
    \/ CallDifferentialExpression
    \/ CallValidateAnndata

SpecFrame == InitExpr /\ [][NextFrame]_vars

\* training, with a trainer that may fail
NextTrain == Train \/ TrainRaising \/ Discard

SpecTrain == InitExpr /\ [][NextTrain]_vars

\* saving and loading, on a model of the default likelihood and dispersion of
\* either kind of class, with or without **kwargs, over either initial disk
InitPersist == InitAny /\ gene_likelihood = "zinb" /\ dispersion = "gene"

NextPersist == Train \/ TrainRaising \/ CallSave \/ CallLoad \/ Discard

SpecPersist == InitPersist /\ [][NextPersist]_vars

\* minification, on a model of the default likelihood and dispersion whose
\* module uses the observed library size or not
InitMinify ==
    /\ InitAny
    /\ gene_likelihood = "zinb" /\ dispersion = "gene"
    /\ init_params_ # None
    /\ disk = [p \in Paths |-> Absent]

NextMinify == Train \/ CallMinifyAdata \/ Discard

SpecMinify == InitMinify /\ [][NextMinify]_vars

\* every operation, on every model
Next ==
    \/ Train
    \/ TrainRaising
    \/ CallSave
    \/ CallLoad
    \/ CallMinifyAdata
    \/ Discard
    \/ CallGetNormalizedExpression
    \/ CallGetLatentLibrarySize
    \/ CallGetLikelihoodParameters
    \/ CallPosteriorPredictiveSample
    \/ CallGetDenoisedSamples
    \/ CallGetFeatureCorrelationMatrix
    \/ CallDifferentialExpression
    \/ CallValidateAnndata
    \/ CallGetElbo
    \/ CallGetMarginalLl
    \/ CallGetReconstructionError
    \/ CallGetLatentRepresentation

Spec == InitAny /\ [][Next]_vars

-----------------------------------------------------------------------------
(* Properties of get_normalized_expression *)

IsGNE == call.op = "get_normalized_expression" /\ call.raised = "none"

\* the rows a call asked for
RowsOf(a) == IF IsNone(a.indices) THEN [i \in 1..n_obs |-> i] ELSE Get(a.indices)

\* the batch code a call asked to condition on, or the cell's own batch
BatchFor(a, c) ==
    IF a.transform_batch = None THEN obs_batch[c]
    ELSE IF Get(a.transform_batch) = "b0" THEN 0 ELSE 1

\* decoded expression of cell c, gene column j, posterior sample s under the call's options
Decoded(a, c, j, s) ==
    IF a.library_size.kind = "latent"
    THEN Library(c) * PxScale(c, j, s, BatchFor(a, c))
    ELSE a.library_size.val * PxScale(c, j, s, BatchFor(a, c))

\* its average over the call's posterior samples
DecodedMean(a, c, j) ==
    SumSeq([s \in 1..a.n_samples |-> Decoded(a, c, j, s)]) \div a.n_samples

\* position of a gene name in the dataset's gene ordering
ColumnOf(name) == CHOOSE j \in 1..n_vars : var_names[j] = name

\* the dataset columns a call selects, ascending
SelectedColumns(a) ==
    IF a.gene_list = None THEN [j \in 1..n_vars |-> j]
    ELSE LET wanted == {ColumnOf(Get(a.gene_list)[k]) : k \in 1..Len(Get(a.gene_list))}
             Place(j) == Cardinality({i \in wanted : i <= j})
         IN  [g \in 1..Cardinality(wanted) |-> CHOOSE j \in wanted : Place(j) = g]

C2_ColumnsAsGeneList ==
    (IsGNE /\ call.args.gene_list # None) =>
        /\ call.result.shape[Len(call.result.shape)] = Len(Get(call.args.gene_list))
        /\ call.result.type = "DataFrame" =>
               call.result.columns = Get(call.args.gene_list)

\* C2 amended: with gene_list given, the result has one column per distinct
\* name of gene_list, the columns are those genes in the dataset's gene
\* ordering, and each column holds the values of the gene it is named after.
C2_ColumnsInDatasetOrder ==
    (IsGNE /\ call.args.gene_list # None) =>
        LET a == call.args
            res == call.result
            gene_list == Get(a.gene_list)
            names == {gene_list[k] : k \in 1..Len(gene_list)}
            ncols == res.shape[Len(res.shape)]
            cols == SelectedColumns(a)
        IN  /\ ncols = Cardinality(names)
            /\ \A g \in 1..ncols : var_names[cols[g]] \in names
            /\ \A g, h \in 1..ncols : g < h => cols[g] < cols[h]
            /\ res.type = "DataFrame" =>
                   res.columns = [g \in 1..ncols |-> var_names[cols[g]]]
            /\ \A idx \in Indices(res.shape) :
                   At(res, idx) =
                       IF Len(res.shape) = 3
                       THEN Decoded(a, RowsOf(a)[idx[2]], cols[idx[3]], idx[1])
                       ELSE DecodedMean(a, RowsOf(a)[idx[1]], cols[idx[2]])

\* gene_list = ["G1", "G3"] on a dataset ordered G3, G1, G2
C2_Witness ==
    /\ IsGNE
    /\ call.args.gene_list = Some(<<"G1", "G3">>)
    /\ call.result.type = "DataFrame"
    /\ call.result.columns = <<"G3", "G1">>

\* C4: when n_samples > 1 and return_mean is False the result is a raw array
\* with axes (samples, cells, genes) whatever return_numpy was, and the warning
\* is logged exactly when return_numpy=False was passed; otherwise the result
\* has axes (cells, genes), is averaged over the samples, and is a table
\* unless return_numpy is True.
C4_OutputForm ==
    IsGNE =>
        LET a == call.args
            res == call.result
            nrows == Len(RowsOf(a))
            cols == SelectedColumns(a)
        IN  IF a.n_samples > 1 /\ ~a.return_mean
            THEN /\ res.type = "ndarray"
                 /\ res.shape = <<a.n_samples, nrows, Len(cols)>>
                 /\ (call.log # <<>>) <=> (a.return_numpy = Some(FALSE))
            ELSE /\ res.shape = <<nrows, Len(cols)>>
                 /\ (res.type = "ndarray") <=> (a.return_numpy = Some(TRUE))
                 /\ (res.type = "DataFrame") <=> (a.return_numpy # Some(TRUE))
                 /\ call.log = <<>>
                 /\ \A k \in 1..nrows, g \in 1..Len(cols) :
                        a.n_samples * At(res, <<k, g>>) =
                            SumSeq([s \in 1..a.n_samples |->
                                       Decoded(a, RowsOf(a)[k], cols[g], s)])

\* a table was asked for together with the sample axis
C4_Witness ==
    /\ IsGNE
    /\ call.args.n_samples = 2
    /\ call.args.return_mean = FALSE
    /\ call.args.return_numpy = Some(FALSE)
    /\ call.result.type = "ndarray"
    /\ Len(call.result.shape) = 3
    /\ call.log # <<>>

\* C5: with library_size "latent" every output value is the decoded rate
\* unchanged; with a numeric library_size L every output value is the decoded
\* proportion times L, so each cell's sum over all genes is L times the sum of
\* its decoded proportions.
C5_ScalingPath ==
    IsGNE =>
        LET a == call.args
            res == call.result
            n == a.n_samples
            rows == RowsOf(a)
            cols == SelectedColumns(a)
            tb == IF a.transform_batch = None THEN None ELSE Some(BatchFor(a, 1))
            rate(c, j, s) ==
                At(GetSampleRate(<<c>>, n, tb), IF n = 1 THEN <<1, j>> ELSE <<s, 1, j>>)
            prop(c, j, s) ==
                At(GetSampleScale(<<c>>, n, tb), IF n = 1 THEN <<1, j>> ELSE <<s, 1, j>>)
            out(c, j, s) ==
                IF a.library_size.kind = "latent" THEN rate(c, j, s)
                ELSE a.library_size.val * prop(c, j, s)
        IN  /\ Len(res.shape) = 3 =>
                   \A idx \in Indices(res.shape) :
                       At(res, idx) = out(rows[idx[2]], cols[idx[3]], idx[1])
            /\ Len(res.shape) = 2 =>
                   \A idx \in Indices(res.shape) :
                       n * At(res, idx) =
                           SumSeq([s \in 1..n |-> out(rows[idx[1]], cols[idx[2]], s)])
            /\ (a.library_size.kind = "scalar" /\ a.gene_list = None /\ n = 1) =>
                   \A k \in 1..Len(rows) :
                       SumSeq([g \in 1..n_vars |-> At(res, <<k, g>>)]) =
                           a.library_size.val *
                               SumSeq([j \in 1..n_vars |-> prop(rows[k], j, 1)])

\* a numeric library size other than 1 over all genes
C5_Witness ==
    /\ IsGNE
    /\ call.args.n_samples = 1
    /\ call.args.library_size = [kind |-> "scalar", val |-> 3]
    /\ call.args.gene_list = None
    /\ call.result.shape = <<n_obs, n_vars>>


-----------------------------------------------------------------------------
(* Properties of the untrained-model guard *)

\* C3 as stated: each of get_normalized_expression, get_latent_library_size
\* and get_likelihood_parameters, called while is_trained_ is False, raises
\* the untrained-model error and returns no result.
C3_UntrainedFails ==
    (/\ call.op \in {"get_normalized_expression", "get_latent_library_size",
                     "get_likelihood_parameters"}
     /\ is_trained_ = FALSE)
    => /\ call.raised = "RuntimeError"
       /\ call.msg = "Please train the model first."
       /\ call.result = NoResult

-----------------------------------------------------------------------------
(* Properties of posterior_predictive_sample and _get_denoised_samples *)

\* the distribution built for a supported likelihood
DistName(likelihood) ==
    CASE likelihood = "poisson" -> "Poisson"
      [] likelihood = "nb" -> "NegativeBinomial"
      [] likelihood = "zinb" -> "ZeroInflatedNegativeBinomial"

\* C6: posterior_predictive_sample on a model whose gene_likelihood is not
\* poisson, nb or zinb raises the unsupported-likelihood error before the
\* dataset is validated, a posterior is made or a minibatch is decoded or
\* sampled; for poisson, nb and zinb every drawn value comes from the
\* Poisson, negative-binomial and zero-inflated negative-binomial
\* distribution respectively.
C6_UnsupportedLikelihood ==
    call.op = "posterior_predictive_sample" =>
        IF gene_likelihood \notin {"poisson", "nb", "zinb"}
        THEN /\ call.raised = "ValueError"
             /\ call.msg = "Invalid gene_likelihood."
             /\ call.events = <<>>
             /\ call.result = NoResult
        ELSE /\ call.raised = "none"
             /\ \A k \in 1..Len(call.result.data) :
                    call.result.data[k].dist = DistName(gene_likelihood)

C6_Witness ==
    /\ call.op = "posterior_predictive_sample"
    /\ gene_likelihood = "normal"
    /\ call.raised = "ValueError"
    /\ call.events = <<>>

\* C7 as stated: posterior_predictive_sample returns, for every n_samples >= 1,
\* every row subset and with or without gene_list, an array of exactly three
\* axes (cells, selected genes, n_samples) with len(rows) cells.
C7_ThreeAxes ==
    (call.op = "posterior_predictive_sample" /\ call.raised = "none")
    => call.result.shape = <<Len(RowsOf(call.args)), Len(SelectedColumns(call.args)),
                             call.args.n_samples>>

\* C8 as stated: _get_denoised_samples never fails on the axis reordering and
\* returns, for every n_samples >= 1 and every row subset, an array of exactly
\* three axes (cells, genes, n_samples) whose cell axis follows rows.
C8_DenoisedThreeAxes ==
    call.op = "_get_denoised_samples" =>
        /\ call.raised = "none"
        /\ call.result.shape = <<Len(RowsOf(call.args)), n_vars, call.args.n_samples>>
        /\ \A i \in 1..Len(RowsOf(call.args)), j \in 1..n_vars, s \in 1..call.args.n_samples :
               At(call.result, <<i, j, s>>).mu
                   = call.args.rna_size_factor
                       * PxScale(RowsOf(call.args)[i], j, s, obs_batch[RowsOf(call.args)[i]])

-----------------------------------------------------------------------------
(* Properties of get_feature_correlation_matrix *)

IsCorr == call.op = "get_feature_correlation_matrix"

\* C9 as stated: for each entry b of the transform_batch list the denoised
\* samples are decoded conditioned on batch b (each cell's own batch for a
\* None entry), one correlation matrix is computed per entry, and the result
\* averages these matrices over the list.
C9_DecodedOnEntryBatch ==
    (IsCorr /\ call.raised = "none") =>
        LET a == call.args
            tbs == TransformBatchList(a.transform_batch)
            rows == RowsOf(a)
            mats == call.result.mean_of
        IN  /\ Len(mats) = Len(tbs)
            /\ \A k \in 1..Len(tbs) :
                 /\ mats[k].correlation = a.correlation_type
                 /\ mats[k].flattened.shape = <<Len(rows) * a.n_samples, n_vars>>
                 /\ \A s \in 1..a.n_samples, i \in 1..Len(rows), j \in 1..n_vars :
                        At(mats[k].flattened, <<Len(rows) * (s - 1) + i, j>>).mu
                            = a.rna_size_factor
                                * PxScale(rows[i], j, s, DecodeBatch(rows[i], tbs[k]))

\* C10 as stated: with a correlation_type other than pearson or spearman the
\* call raises the validation error before a posterior is made and before any
\* minibatch is decoded or any denoised sample is drawn, whatever
\* transform_batch is.
C10_CorrelationTypeFirst ==
    (IsCorr /\ call.args.correlation_type \notin {"pearson", "spearman"}) =>
        /\ call.raised = "ValueError"
        /\ call.msg = "Unknown correlation type."
        /\ \A k \in 1..Len(call.events) :
               call.events[k] \notin {"_make_posterior", "inference", "sample"}


-----------------------------------------------------------------------------
(* Properties of get_likelihood_parameters *)

IsGLP == call.op = "get_likelihood_parameters"

\* C11 as stated: get_likelihood_parameters with n_samples = 1 on an nb or
\* zinb model returns dispersions of shape (len(rows), genes), the per-gene
\* dispersion tiled once per cell and the per-cell dispersion passed through.
C11_DispersionsPerCell ==
    (IsGLP /\ call.args.n_samples = 1 /\ gene_likelihood \in {"nb", "zinb"}) =>
        /\ call.raised = "none"
        /\ LET rows == RowsOf(call.args)
               d == Get(call.result.dispersions)
           IN  /\ d.shape = <<Len(rows), n_vars>>
               /\ \A i \in 1..Len(rows), j \in 1..n_vars :
                      At(d, <<i, j>>) = IF dispersion = "gene" THEN PxRGene(j)
                                        ELSE PxRGeneCell(rows[i], j, 1)

\* the array the claim expects for a decoded parameter P(cell, gene, sample)
\* of a call with n_samples > 1
ExpectedParameter(arr, a, P(_, _, _)) ==
    LET rows == RowsOf(a)
    IN  IF a.give_mean
        THEN /\ arr.shape = <<Len(rows), n_vars>>
             /\ \A i \in 1..Len(rows), j \in 1..n_vars :
                    At(arr, <<i, j>>)
                        = SumSeq([s \in 1..a.n_samples |-> P(rows[i], j, s)]) \div a.n_samples
        ELSE /\ arr.shape = <<a.n_samples, Len(rows), n_vars>>
             /\ \A s \in 1..a.n_samples, i \in 1..Len(rows), j \in 1..n_vars :
                    At(arr, <<s, i, j>>) = P(rows[i], j, s)

\* C12 as stated: get_likelihood_parameters with n_samples > 1 concatenates
\* the per-minibatch mean and dropout along the cell axis, whatever the rows
\* and the batch_size: the result has axes (samples, len(rows), genes) when
\* give_mean is False and (len(rows), genes) in rows order when it is True.
C12_CellAxisConcatenation ==
    (IsGLP /\ call.args.n_samples > 1) =>
        /\ call.raised = "none"
        /\ ExpectedParameter(Get(call.result.mean), call.args, PxRate)
        /\ gene_likelihood = "zinb"
             => ExpectedParameter(Get(call.result.dropout), call.args, PxDropout)


-----------------------------------------------------------------------------
(* Properties of differential_expression *)

IsDE == call.op = "differential_expression"

\* the two masks a comparison handed to get_bayes_factors
HandedMasks(c) ==
    LET e == c.events[CHOOSE k \in 1..Len(c.events) : c.events[k].fn = "get_bayes_factors"]
    IN  <<e.args[1], e.args[2]>>

\* the cells of a group, read off the dataset
GroupCells(groupby, group) == {c \in 1..n_obs : obs[groupby][c] = group}
Group1Cells(a) == GroupCells(a.groupby, a.group1)
Group2Cells(a) ==
    IF a.group2 = None THEN (1..n_obs) \ Group1Cells(a)
    ELSE GroupCells(a.groupby, Get(a.group2))

\* C13 as stated: whatever groupby, group1 and group2 are, the two cell sets
\* handed to the Bayes-factor computation are disjoint, and with group2
\* omitted the second is the complement of the first.
C13_GroupsDisjoint ==
    IsDE =>
        LET set1 == CellsOf(HandedMasks(call)[1])
            set2 == CellsOf(HandedMasks(call)[2])
        IN  /\ set1 \cap set2 = {}
            /\ call.args.group2 = None => set2 = (1..n_obs) \ set1

\* C14: a comparison in which group1 or group2 has no cell (group1 covering
\* every cell with group2 omitted, or a value absent from the column) fails
\* with the degenerate-comparison error and returns no table.
C14_DegenerateGroupFails ==
    (IsDE /\ (Group1Cells(call.args) = {} \/ Group2Cells(call.args) = {})) =>
        /\ call.raised = "ValueError"
        /\ call.msg = "degenerate comparison"
        /\ call.result = NoResult

C14_Witness ==
    /\ IsDE
    /\ call.args.groupby = "cluster" /\ call.args.group1 = "x" /\ call.args.group2 = None
    /\ call.raised = "ValueError"

\* C15: a comparison with a mode other than vanilla and change fails with a
\* validation error and never returns a table.
C15_UnknownModeFails ==
    (IsDE /\ call.args.mode \notin {"vanilla", "change"}) =>
        /\ call.raised = "ValueError"
        /\ call.result = NoResult

C15_Witness ==
    /\ IsDE
    /\ call.args.mode = "other"
    /\ Group1Cells(call.args) # {} /\ Group2Cells(call.args) # {}
    /\ call.raised = "ValueError" /\ call.msg = "unknown mode"

\* column of a returned table, by name
TableColumn(t, name) == t.values[CHOOSE k \in 1..Len(t.columns) : t.columns[k] = name]

\* a comparison the engine accepts
ValidComparison(a) ==
    /\ a.mode \in {"vanilla", "change"}
    /\ Group1Cells(a) # {} /\ Group2Cells(a) # {}

\* the value the comparison computed for a column and a gene, before sorting
UnsortedValue(a, p, name, j) ==
    IF name \in {"bayes_factor", "proba_de", "proba_not_de"}
    THEN Statistic(name, ObsEquals(a.groupby, a.group1),
                   IF a.group2 = None THEN Complement(ObsEquals(a.groupby, a.group1))
                   ELSE ObsEquals(a.groupby, Get(a.group2)),
                   a.use_permutation, a.seed, p, j)
    ELSE DictGet(GenesPropertiesDict(
                     ScrnaRawCountsProperties(
                         ObsEquals(a.groupby, a.group1),
                         IF a.group2 = None THEN Complement(ObsEquals(a.groupby, a.group1))
                         ELSE ObsEquals(a.groupby, Get(a.group2)))), name)[j]

\* C16: an accepted comparison returns a table with exactly one row per gene,
\* labelled by gene name, sorted in descending order of proba_de in change
\* mode and of bayes_factor otherwise, each row holding its own gene's values.
C16_SortedOneRowPerGene ==
    (IsDE /\ ValidComparison(call.args)) =>
        /\ call.raised = "none"
        /\ LET t == call.result
               key == IF call.args.mode = "change" THEN "proba_de" ELSE "bayes_factor"
           IN  /\ Len(t.index) = n_vars
               /\ {t.index[r] : r \in 1..n_vars} = GeneNames
               /\ \E k \in 1..Len(t.columns) : t.columns[k] = key
               /\ \A r \in 1..(n_vars - 1) :
                      TableColumn(t, key)[r] >= TableColumn(t, key)[r + 1]
               /\ \A k \in 1..Len(t.columns), r \in 1..n_vars :
                      t.values[k][r]
                          = UnsortedValue(call.args, params, t.columns[k], ColumnOf(t.index[r]))

C16_Witness ==
    /\ IsDE /\ call.raised = "none"
    /\ call.args.mode = "change"
    /\ call.result.index # GetVarNamesFromSetupAnndata

RawColumns ==
    <<"raw_mean1", "raw_mean2", "non_zeros_proportion1", "non_zeros_proportion2",
      "raw_normalized_mean1", "raw_normalized_mean2">>

\* C17: with all_stats the table holds every column of the Bayes-factor
\* computation followed by the six raw-count columns, each computed over the
\* very cell set handed to the Bayes-factor computation for its group;
\* without all_stats none of the six is present.
C17_RawStatistics ==
    (IsDE /\ call.raised = "none") =>
        LET t == call.result
            set1 == CellsOf(HandedMasks(call)[1])
            set2 == CellsOf(HandedMasks(call)[2])
        IN  IF call.args.all_stats
            THEN /\ t.columns = ModeStatistics(call.args.mode) \o RawColumns
                 /\ \A k \in 1..Len(ModeStatistics(call.args.mode)), r \in 1..n_vars :
                        t.values[k][r]
                            = UnsortedValue(call.args, params, t.columns[k],
                                            ColumnOf(t.index[r]))
                 /\ \A k \in 1..Len(RawColumns), r \in 1..n_vars :
                        /\ TableColumn(t, RawColumns[k])[r].cells
                               = IF k \in {1, 3, 5} THEN set1 ELSE set2
                        /\ TableColumn(t, RawColumns[k])[r].gene = ColumnOf(t.index[r])
            ELSE /\ t.columns = ModeStatistics(call.args.mode)
                 /\ \A k \in 1..Len(t.columns), c \in 1..Len(RawColumns) :
                        t.columns[k] # RawColumns[c]

C17_Witness ==
    /\ IsDE /\ call.raised = "none"
    /\ call.args.all_stats
    /\ call.args.group2 = Some("B")

-----------------------------------------------------------------------------
(* Properties of _validate_anndata *)

IsValidate == call.op = "_validate_anndata"

HasWarning(log, msg) == \E k \in 1..Len(log) : log[k] = Logged("warning", msg)

\* C20: _validate_anndata never fails on a data-quality problem: a dataset
\* whose registered counts are not non-negative integers is returned with a
\* warning logged; a view is warned about and, with copy_if_view, a copy is
\* returned while the caller's view and the model's own dataset stay as they
\* were; with adata=None the model's own dataset is validated and returned.
C20_WarningsNotFailures ==
    IsValidate =>
        LET given == IF call.args.adata = None THEN OwnDataset ELSE Get(call.args.adata)
            r == call.result
        IN  /\ call.raised = "none"
            /\ r.type = "AnnData"
            /\ adata = OwnDataset
            /\ ~given.is_count =>
                   /\ HasWarning(call.log, "Make sure the registered X field in anndata contains unnormalized count data.")
                   /\ ~r.returned.is_count
            /\ given.is_view => HasWarning(call.log, "Input anndata is a view.")
            /\ (given.is_view /\ call.args.copy_if_view) =>
                   /\ r.returned.id = "copy"
                   /\ r.given_after = given
            /\ call.args.adata = None => r.returned = OwnDataset

C20_Witness ==
    /\ IsValidate
    /\ call.args.adata # None
    /\ Get(call.args.adata).is_view /\ ~Get(call.args.adata).has_setup
    /\ ~Get(call.args.adata).is_count
    /\ call.args.copy_if_view
    /\ call.result.returned.id = "copy"


-----------------------------------------------------------------------------
(* Frame of the queries *)

QueryOps ==
    {"get_normalized_expression", "get_latent_representation", "get_latent_library_size",
     "get_likelihood_parameters", "posterior_predictive_sample", "_get_denoised_samples",
     "get_feature_correlation_matrix", "differential_expression", "get_elbo",
     "get_marginal_ll", "get_reconstruction_error"}

\* C19: no query, returning or raising, changes the parameters of the module,
\* is_trained_, the train, test and validation index sets, the stored setup
\* dictionary or the model's own dataset: a step that ends with a query's
\* outcome leaves all of them as the last train or the constructor set them.
C19_QueriesLeaveModel ==
    [][call'.op \in QueryOps =>
          /\ params' = params
          /\ is_trained_' = is_trained_
          /\ train_indices_' = train_indices_
          /\ test_indices_' = test_indices_
          /\ validation_indices_' = validation_indices_
          /\ scvi_setup_dict_' = scvi_setup_dict_
          /\ adata' = adata
          /\ gene_likelihood' = gene_likelihood
          /\ dispersion' = dispersion]_vars

C19_Witness ==
    /\ call.op = "get_elbo"
    /\ call.raised = "none"
    /\ is_trained_
    /\ train_indices_ = Some(<<1, 2>>)
    /\ test_indices_ = Some(<<3>>)

-----------------------------------------------------------------------------
(* Properties of the flattening of get_feature_correlation_matrix *)

\* C28: every matrix handed to the correlation routine has cells * n_samples
\* rows and one column per gene, and its row i * cells + c holds the denoised
\* values of cell c in posterior sample i, for every sample i and cell c.
C28_FlattenedBySample ==
    (IsCorr /\ call.raised = "none") =>
        LET a == call.args
            tbs == TransformBatchList(a.transform_batch)
            cells == Len(RowsOf(a))
            mats == call.result.mean_of
        IN  \A k \in 1..Len(mats) :
               LET denoised == DenoisedSamples(a.indices, a.n_samples, a.batch_size,
                                               a.rna_size_factor, tbs[k], dispersion).value
                   flattened == mats[k].flattened
               IN  /\ denoised.shape = <<cells, n_vars, a.n_samples>>
                   /\ flattened.shape = <<cells * a.n_samples, n_vars>>
                   /\ \A i \in 0..(a.n_samples - 1), c \in 1..cells, j \in 1..n_vars :
                          At(flattened, <<i * cells + c, j>>) = At(denoised, <<c, j, i + 1>>)

C28_Witness ==
    /\ IsCorr
    /\ call.raised = "none"
    /\ call.args.n_samples = 2
    /\ call.args.indices = Some(<<3, 1>>)
    /\ Len(call.result.mean_of) = 2

-----------------------------------------------------------------------------
(* Properties of save and load *)

IsSave == call.op = "save"
IsLoad == call.op = "load"

\* the files of the directory a save or load was called on
FilesAt(c) == disk[c.args.dir_path].files

\* the attributes a save of the wrapper at hand is to persist
PersistedAttributes ==
    (IF init_params_ = None THEN <<>> ELSE <<Attr(INIT_PARAMS_, Get(init_params_))>>)
    \o <<Attr(IS_TRAINED_, is_trained_),
         Attr(SCVI_SETUP_DICT_, scvi_setup_dict_),
         Attr(TEST_INDICES_, test_indices_),
         Attr(TRAIN_INDICES_, train_indices_),
         Attr(VALIDATION_INDICES_, validation_indices_)>>

\* C21: a save on a path that exists, without overwrite, raises and leaves
\* the file system as it was; a save on a path that does not exist, or with
\* overwrite, returns and leaves a directory at the path that holds
\* model_params.pt and attr.pkl as this call wrote them; no save changes an
\* attribute of the model.
C21_SaveWritesOrRefuses ==
    [][call'.op = "save" =>
          LET a == call'.args
              existed == disk[a.dir_path].kind # "absent"
              after == disk'[a.dir_path]
          IN  /\ (existed /\ ~a.overwrite) =>
                     /\ call'.raised = "ValueError"
                     /\ disk' = disk
              /\ (~existed \/ a.overwrite) =>
                     /\ call'.raised = "none"
                     /\ after.kind = "dir"
                     /\ HasKey(after.files, "model_params.pt")
                     /\ HasKey(after.files, "attr.pkl")
                     /\ DictGet(after.files, "model_params.pt") = StateDictFile(params)
                     /\ DictGet(after.files, "attr.pkl").format = "pickle"
                     /\ \A p \in Paths \ {a.dir_path} : disk'[p] = disk[p]
              /\ self' = self]_vars

C21_Witness ==
    /\ IsSave
    /\ call.raised = "ValueError"
    /\ call.args.overwrite = FALSE
    /\ HasKey(FilesAt(call), "attr.pkl")
    /\ is_trained_

NoInitParamsSaved == "No init_params_ were saved by the model."

\* C23: a load on a directory whose attr.pkl holds no init_params_ raises
\* the init_params_ error having constructed no model and loaded no
\* parameters, and leaves the model at hand as it is; a load by a class that
\* sets init_params_ never raises that error on a directory a save wrote; a
\* save by a class that never sets init_params_ fails only on a path that
\* exists without overwrite.
C23_InitParamsRequired ==
    /\ (IsLoad /\ HasKey(FilesAt(call), "attr.pkl")
           /\ ~HasKey(Unpickled(DictGet(FilesAt(call), "attr.pkl")), INIT_PARAMS_)) =>
           /\ call.raised = "ValueError"
           /\ call.msg = NoInitParamsSaved
           /\ \A k \in 1..Len(call.events) :
                  call.events[k] \notin {"cls", "setattr", "torch.load", "load_state_dict"}
    /\ (IsLoad /\ init_params_ # None /\ HasKey(FilesAt(call), "attr.pkl")) =>
           call.msg # NoInitParamsSaved
    /\ (IsSave /\ init_params_ = None /\ call.raised # "none") =>
           /\ call.raised = "ValueError"
           /\ call.args.overwrite = FALSE
           /\ call.events = <<"os.path.exists">>

C23_Witness ==
    /\ IsLoad
    /\ call.raised = "ValueError"
    /\ call.msg = NoInitParamsSaved
    /\ init_params_ = None
    /\ HasKey(FilesAt(call), "model_params.pt")

-----------------------------------------------------------------------------
(* Properties of minify_adata *)

\* C24: minify_adata with a type other than latent_posterior_parameters
\* raises NotImplementedError; with that type on a module whose
\* use_observed_lib_size is False it raises ValueError; either error leaves
\* the model's dataset and module.minified_data_type as they were.  A call
\* that returns leaves the model with a minified dataset, the dataset it had
\* being as it was, and module.minified_data_type at the requested type,
\* which nothing but a later minification that returns changes.
C24_MinifyAdata ==
    [][/\ call'.op = "minify_adata" =>
             LET a == call'.args
             IN  /\ a.minified_data_type # LATENT_POSTERIOR =>
                        call'.raised = "NotImplementedError"
                 /\ (a.minified_data_type = LATENT_POSTERIOR
                        /\ use_observed_lib_size = FALSE) =>
                        call'.raised = "ValueError"
                 /\ call'.raised \in {"NotImplementedError", "ValueError"} =>
                        /\ adata' = adata
                        /\ minified_data_type' = minified_data_type
                 /\ call'.raised = "none" =>
                        /\ adata'.id = "minified"
                        /\ call'.result.original_after = adata
                        /\ minified_data_type' = Some(a.minified_data_type)
       /\ minified_data_type' # minified_data_type =>
             (call'.op = "minify_adata" /\ call'.raised = "none")]_vars

C24_Witness ==
    /\ call.op = "minify_adata"
    /\ call.raised = "none"
    /\ adata.id = "minified"
    /\ minified_data_type = Some(LATENT_POSTERIOR)
    /\ is_trained_

-----------------------------------------------------------------------------
(* Properties of train *)

IsTrain == call.op = "train"

\* C25: is_trained_ is False after construction and changes only when a train
\* returns normally, which leaves it True; a train that raises leaves it as
\* it was.  A train that starts with is_trained_ False constructs a trainer
\* and assigns the three index sets from it; a train that starts with
\* is_trained_ True constructs none, and leaves the trainer and the three
\* index sets as they were.
C25_TrainLifecycle ==
    /\ is_trained_ = FALSE
    /\ [][/\ is_trained_' # is_trained_ =>
                (call'.op = "train" /\ call'.raised = "none")
          /\ call'.op = "train" =>
                /\ call'.raised = "none" => is_trained_' = TRUE
                /\ call'.raised # "none" => is_trained_' = is_trained_
                /\ is_trained_ = FALSE =>
                       /\ Head(call'.events) = "UnsupervisedTrainer"
                       /\ trainer' # None
                       /\ train_indices_' = Some(Get(trainer').train)
                       /\ test_indices_' = Some(Get(trainer').test)
                       /\ validation_indices_' = Some(Get(trainer').validation)
                /\ is_trained_ = TRUE =>
                       /\ \A k \in 1..Len(call'.events) :
                              call'.events[k] # "UnsupervisedTrainer"
                       /\ trainer' = trainer
                       /\ train_indices_' = train_indices_
                       /\ test_indices_' = test_indices_
                       /\ validation_indices_' = validation_indices_]_vars

C25_Witness ==
    /\ IsTrain
    /\ call.raised = "RuntimeError"
    /\ is_trained_ = FALSE
    /\ trainer = Some(TrainerSplit(2))
    /\ train_indices_ = Some(<<1, 2>>)

\* C26 as stated: whatever was constructed, trained, saved and loaded, a
\* model whose is_trained_ is True has a trainer, and no train fails on a
\* missing trainer.
C26_TrainedHasTrainer ==
    /\ is_trained_ = TRUE => trainer # None
    /\ IsTrain => call.raised # "AttributeError"

\* the value the trainer's train is to get for key: that of the caller's dict
\* if it holds the key, the argument otherwise
ExpectedKwarg(given, key, argument) ==
    IF given # None /\ HasKey(Get(given), key) THEN DictGet(Get(given), key) ELSE argument

\* C27: the trainer's train gets n_epochs and lr from train_fun_kwargs where
\* that dict holds them and from the arguments otherwise; the dict the
\* caller passed is after the call as it was before, and the default dict of
\* the signature stays empty.
C27_KwargsMerged ==
    /\ train_fun_kwargs_default = <<>>
    /\ IsTrain =>
           LET a == call.args
               handed == call.result.train_kwargs
           IN  /\ DictGet(handed, "n_epochs")
                      = ExpectedKwarg(a.train_fun_kwargs, "n_epochs", a.n_epochs)
               /\ DictGet(handed, "lr") = ExpectedKwarg(a.train_fun_kwargs, "lr", a.lr)
               /\ call.result.caller_kwargs
                      = (IF a.train_fun_kwargs = None THEN <<>> ELSE Get(a.train_fun_kwargs))

C27_Witness ==
    /\ IsTrain
    /\ call.raised = "none"
    /\ call.events = <<"trainer.train">>
    /\ call.args.train_fun_kwargs = None
    /\ call.args.n_epochs = 2
    /\ DictGet(call.result.train_kwargs, "n_epochs") = 2

=============================================================================
